---- MODULE Spec2Model ----
(***************************************************************************)
(* A model of the SQL text functions of package lit: the named-query       *)
(* rewriter ParseNamedQuery, the INSERT/UPDATE generators of the           *)
(* PostgreSQL and SQLite drivers, reserved-word escaping and the WHERE     *)
(* placeholder renumbering.  Text is a sequence of one-character strings.  *)
(***************************************************************************)
EXTENDS Integers, Sequences, FiniteSets, TLC

VARIABLES pc, call, ret, StructToFieldMap, defaultDriver, executor, goroutines, heap

vars == <<pc, call, ret, StructToFieldMap, defaultDriver, executor, goroutines, heap>>

\* The registry of models, the default driver and the calls the executor has
\* received during the current call.
litVars == <<StructToFieldMap, defaultDriver, executor>>

\* The frames of the goroutines that run concurrent calls, and the parameter
\* map and column list of the caller that those calls are handed.
concVars == <<goroutines, heap>>

(***************************************************************************)
(* Bounds of the explored inputs.                                          *)
(***************************************************************************)
MaxQueryLen == 4

\* Characters of the query texts that are enumerated exhaustively: the three
\* quote kinds, the colon, the backslash, a letter, the underscore, a digit.
\* The backtick character: a TLA+ string cannot hold one, so it has a name.
Backtick == "BACKTICK"

QueryAlphabet == {"'", "\"", Backtick, ":", "\\", "a", "_", "1"}

Letters == {"a", "d", "i", "s", "t", "x", "A", "D", "I", "S", "T", "X"}
Digits == {"0", "1", "2", "3", "4", "5", "6", "7", "8", "9"}

SeqsUpTo(S, n) == UNION {[1..k -> S] : k \in 0..n}

(***************************************************************************)
(* strconv.Itoa for non-negative integers.                                 *)
(***************************************************************************)
DigitChar(d) == <<"0", "1", "2", "3", "4", "5", "6", "7", "8", "9">>[d + 1]

RECURSIVE Itoa(_)
Itoa(n) == IF n < 10 THEN <<DigitChar(n)>> ELSE Itoa(n \div 10) \o <<DigitChar(n % 10)>>

(***************************************************************************)
(* The drivers.  PostgreSQL and SQLite are the two built-in drivers of the *)
(* source; MySQL is the '?'-style driver with backslash escapes that the   *)
(* tests use; NilDriver is the nil interface value.  CustomDriver is a     *)
(* Driver that the application implements: it numbers its placeholders,    *)
(* and each of its methods does what the method of pgDriver does.          *)
(***************************************************************************)
PostgreSQL == "PostgreSQL"
SQLite == "SQLite"
MySQL == "MySQL"
NilDriver == "nil"
CustomDriver == "Custom"

Drivers == {PostgreSQL, SQLite, MySQL}

\* A slip: the placeholder numbered one less than the bind slot.
pgPlaceholderFromZero(argIndex) == <<"$">> \o Itoa(argIndex - 1)

pgPlaceholder(argIndex) == <<"$">> \o Itoa(argIndex)

sqlitePlaceholder(argIndex) == <<"?">>

mysqlPlaceholder(argIndex) == <<"?">>

Placeholder(driver, argIndex) ==
    CASE driver = PostgreSQL -> pgPlaceholder(argIndex)
      [] driver = SQLite -> sqlitePlaceholder(argIndex)
      [] driver = MySQL -> mysqlPlaceholder(argIndex)
      [] driver = CustomDriver -> pgPlaceholder(argIndex)

\* A slip: the PostgreSQL driver reading a backslash as an escape.
pgSupportsBackslashEscapeOn == TRUE

pgSupportsBackslashEscape == FALSE

sqliteSupportsBackslashEscape == FALSE

mysqlSupportsBackslashEscape == TRUE

SupportsBackslashEscape(driver) ==
    CASE driver = PostgreSQL -> pgSupportsBackslashEscape
      [] driver = SQLite -> sqliteSupportsBackslashEscape
      [] driver = MySQL -> mysqlSupportsBackslashEscape
      [] driver = CustomDriver -> pgSupportsBackslashEscape

(***************************************************************************)
(* ParseNamedQuery.  i is the 0-based index of the source; At(runes, i) is *)
(* runes[i].                                                               *)
(***************************************************************************)
At(runes, i) == runes[i + 1]

\* A slip: a digit accepted as the first character of a name.
isParamStartWithDigits(r) == r = "_" \/ r \in Letters \/ r \in Digits

isParamStart(r) == r = "_" \/ r \in Letters

isParamChar(r) == r = "_" \/ r \in Letters \/ r \in Digits

NilError == [isNil |-> TRUE, msg |-> <<>>]

ErrorOf(msg) == [isNil |-> FALSE, msg |-> msg]

MissingParameterPrefix ==
    <<"m", "i", "s", "s", "i", "n", "g", " ", "p", "a", "r", "a", "m", "e", "t", "e", "r", ":", " ">>

DriverIsNilMsg == <<"d", "r", "i", "v", "e", "r", " ", "i", "s", " ", "n", "i", "l">>

\* A slip: the error does not say which parameter is missing.
MissingParameterUnnamed(name) ==
    [query |-> <<>>, args |-> <<>>, err |-> ErrorOf(MissingParameterPrefix)]

\* return "", nil, fmt.Errorf("missing parameter: %s", name)
MissingParameter(name) ==
    [query |-> <<>>, args |-> <<>>, err |-> ErrorOf(MissingParameterPrefix \o name)]

\* The inner loop of a quoted region, entered with i just past the opening
\* quote: the position and the output at the break or at the end of the text.
\* A slip: two consecutive quotes copied, and the literal closed by them.
RECURSIVE CopyQuotedClosingAtDoubled(_, _, _, _, _)
CopyQuotedClosingAtDoubled(runes, i, out, quote, backslash) ==
    IF ~(i < Len(runes)) THEN [i |-> i, out |-> out]
    ELSE IF backslash /\ At(runes, i) = "\\" /\ i + 1 < Len(runes)
    THEN CopyQuotedClosingAtDoubled(runes, i + 2, out \o <<At(runes, i), At(runes, i + 1)>>,
                                    quote, backslash)
    ELSE IF At(runes, i) = quote
    THEN IF i + 1 < Len(runes) /\ At(runes, i + 1) = quote
         THEN [i |-> i + 1, out |-> out \o <<quote, quote>>]
         ELSE [i |-> i, out |-> Append(out, quote)]
    ELSE CopyQuotedClosingAtDoubled(runes, i + 1, Append(out, At(runes, i)), quote, backslash)

RECURSIVE CopyQuoted(_, _, _, _, _)
CopyQuoted(runes, i, out, quote, backslash) ==
    IF ~(i < Len(runes)) THEN [i |-> i, out |-> out]
    ELSE IF backslash /\ At(runes, i) = "\\" /\ i + 1 < Len(runes)
    THEN CopyQuoted(runes, i + 2, out \o <<At(runes, i), At(runes, i + 1)>>, quote, backslash)
    ELSE IF At(runes, i) = quote
    THEN IF i + 1 < Len(runes) /\ At(runes, i + 1) = quote
         THEN CopyQuoted(runes, i + 2, out \o <<quote, quote>>, quote, backslash)
         ELSE [i |-> i, out |-> Append(out, quote)]
    ELSE CopyQuoted(runes, i + 1, Append(out, At(runes, i)), quote, backslash)

\* A slip: the single quote copied like any character, opening no literal.
SingleQuotedNotQuoting(driver, runes, i, out) == [i |-> i, out |-> Append(out, "'")]

SingleQuoted(driver, runes, i, out) ==
    CopyQuoted(runes, i + 1, Append(out, "'"), "'", SupportsBackslashEscape(driver))

DoubleQuoted(driver, runes, i, out) ==
    CopyQuoted(runes, i + 1, Append(out, "\""), "\"", SupportsBackslashEscape(driver))

\* A slip: the backtick copied like any character, opening no quoted region.
BacktickNotQuoting(driver, runes, i, out) == [i |-> i, out |-> Append(out, Backtick)]

BacktickQuoted(driver, runes, i, out) ==
    CopyQuoted(runes, i + 1, Append(out, Backtick), Backtick, FALSE)

\* A slip: the '::' test left out.
IsDoubleColonNever(runes, i) == FALSE

\* if i+1 < len(runes) && runes[i+1] == ':'
IsDoubleColon(runes, i) == i + 1 < Len(runes) /\ At(runes, i + 1) = ":"

\* if i+1 < len(runes) && isParamStart(runes[i+1])
IsParamToken(runes, i) == i + 1 < Len(runes) /\ isParamStart(At(runes, i + 1))

\* A slip: the name ended after its first character.
ParamEndAfterOne(runes, j) == j + 1

\* for j < len(runes) && isParamChar(runes[j]) { j++ }
RECURSIVE ParamEnd(_, _)
ParamEnd(runes, j) ==
    IF j < Len(runes) /\ isParamChar(At(runes, j)) THEN ParamEnd(runes, j + 1) ELSE j

\* string(runes[i+1 : j])
ParamName(runes, i, j) == SubSeq(runes, i + 2, j)

RECURSIVE ScanLoop(_, _, _, _, _, _, _)
ScanLoop(driver, runes, params, i, out, args, argIndex) ==
    IF ~(i < Len(runes)) THEN [query |-> out, args |-> args, err |-> NilError]
    ELSE LET r == At(runes, i) IN
      IF r = "'"
      THEN LET q == SingleQuoted(driver, runes, i, out)
           IN ScanLoop(driver, runes, params, q.i + 1, q.out, args, argIndex)
      ELSE IF r = "\""
      THEN LET q == DoubleQuoted(driver, runes, i, out)
           IN ScanLoop(driver, runes, params, q.i + 1, q.out, args, argIndex)
      ELSE IF r = Backtick
      THEN LET q == BacktickQuoted(driver, runes, i, out)
           IN ScanLoop(driver, runes, params, q.i + 1, q.out, args, argIndex)
      ELSE IF r = ":"
      THEN IF IsDoubleColon(runes, i)
           THEN ScanLoop(driver, runes, params, i + 2, out \o <<":", ":">>, args, argIndex)
           ELSE IF IsParamToken(runes, i)
           THEN LET j == ParamEnd(runes, i + 1)
                    name == ParamName(runes, i, j)
                IN IF name \notin DOMAIN params
                   THEN MissingParameter(name)
                   ELSE ScanLoop(driver, runes, params, j,
                                 out \o Placeholder(driver, argIndex + 1),
                                 Append(args, params[name]), argIndex + 1)
           ELSE ScanLoop(driver, runes, params, i + 1, Append(out, ":"), args, argIndex)
      ELSE ScanLoop(driver, runes, params, i + 1, Append(out, r), args, argIndex)

ParseNamedQuery(driver, query, params) ==
    IF driver = NilDriver
    THEN [query |-> <<>>, args |-> <<>>, err |-> ErrorOf(DriverIsNilMsg)]
    ELSE ScanLoop(driver, query, params, 0, <<>>, <<>>, 0)

(***************************************************************************)
(* Reserved-word escaping.  The keyword tables are those of the source     *)
(* restricted to the words over the letters A, D, I, S, T.                 *)
(***************************************************************************)
pgReservedKeywords ==
    { <<"A", "D", "D">>, <<"A", "S">>, <<"A", "T">>, <<"D", "A", "T", "A">>, <<"I", "S">> }

sqliteReservedKeywords ==
    { <<"A", "D", "D">>, <<"A", "S">>, <<"I", "S">> }

\* unicode.ToUpper on the letters of the model.
UpperRune(r) ==
    CASE r = "a" -> "A" [] r = "d" -> "D" [] r = "i" -> "I" [] r = "s" -> "S"
      [] r = "t" -> "T" [] r = "x" -> "X" [] OTHER -> r

\* strings.ToUpper
ToUpper(s) == [k \in 1..Len(s) |-> UpperRune(s[k])]

\* strings.ReplaceAll(s, `"`, `""`)
RECURSIVE ReplaceAllQuotes(_)
ReplaceAllQuotes(s) ==
    IF s = <<>> THEN <<>>
    ELSE (IF Head(s) = "\"" THEN <<"\"", "\"">> ELSE <<Head(s)>>) \o ReplaceAllQuotes(Tail(s))

\* A slip: the closing quote of a reserved name left out.
pgEscapeReservedUnclosed(tableOrColumn) ==
    LET escaped == ReplaceAllQuotes(tableOrColumn)
    IN IF ToUpper(tableOrColumn) \in pgReservedKeywords
       THEN <<"\"">> \o escaped
       ELSE tableOrColumn

\* A slip: the name looked up as written, not upper-cased.
pgEscapeReservedCaseSensitive(tableOrColumn) ==
    LET escaped == ReplaceAllQuotes(tableOrColumn)
    IN IF tableOrColumn \in pgReservedKeywords
       THEN <<"\"">> \o escaped \o <<"\"">>
       ELSE tableOrColumn

pgEscapeReserved(tableOrColumn) ==
    LET escaped == ReplaceAllQuotes(tableOrColumn)
    IN IF ToUpper(tableOrColumn) \in pgReservedKeywords
       THEN <<"\"">> \o escaped \o <<"\"">>
       ELSE tableOrColumn

\* A slip: every name wrapped in quotes, reserved or not.
sqliteEscapeReservedEveryName(tableOrColumn) ==
    <<"\"">> \o ReplaceAllQuotes(tableOrColumn) \o <<"\"">>

sqliteEscapeReserved(tableOrColumn) ==
    LET escaped == ReplaceAllQuotes(tableOrColumn)
    IN IF ToUpper(tableOrColumn) \in sqliteReservedKeywords
       THEN <<"\"">> \o escaped \o <<"\"">>
       ELSE tableOrColumn

EscapeReserved(driver, tableOrColumn) ==
    CASE driver = PostgreSQL -> pgEscapeReserved(tableOrColumn)
      [] driver = SQLite -> sqliteEscapeReserved(tableOrColumn)

(***************************************************************************)
(* GenerateInsertQuery and GenerateUpdateQuery of the two drivers.  The    *)
(* loops run over the 0-based index i of the source.                       *)
(***************************************************************************)
IdColumn == <<"i", "d">>

\* if i != totalKeys-1 { WriteString(",") }
CommaUnlessLast(i, totalKeys) == IF i # totalKeys - 1 THEN <<",">> ELSE <<>>

\* The first loop of GenerateInsertQuery: the escaped column names.
RECURSIVE pgInsertColumnNames(_, _)
pgInsertColumnNames(columnKeys, i) ==
    IF ~(i < Len(columnKeys)) THEN <<>>
    ELSE pgEscapeReserved(At(columnKeys, i)) \o CommaUnlessLast(i, Len(columnKeys))
         \o pgInsertColumnNames(columnKeys, i + 1)

\* A slip: every column named "id" defaulted, whatever hasIntId says.
pgIsIdentityColumnAnyId(hasIntId, k) == k = IdColumn

\* if hasIntId && k == "id"
pgIsIdentityColumn(hasIntId, k) == hasIntId /\ k = IdColumn

\* A slip: the placeholder numbered by the column's position.
pgInsertPlaceholderByPosition(i, counter) == <<"$">> \o Itoa(i + 1)

\* "$" + strconv.Itoa(counter)
pgInsertPlaceholder(i, counter) == <<"$">> \o Itoa(counter)

\* The second loop: the VALUES list and the argument columns.
RECURSIVE pgInsertValues(_, _, _, _, _, _)
pgInsertValues(columnKeys, hasIntId, i, counter, insertColumns, out) ==
    IF ~(i < Len(columnKeys)) THEN [out |-> out, insertColumns |-> insertColumns]
    ELSE LET k == At(columnKeys, i)
             comma == CommaUnlessLast(i, Len(columnKeys))
         IN IF pgIsIdentityColumn(hasIntId, k)
            THEN pgInsertValues(columnKeys, hasIntId, i + 1, counter, insertColumns,
                                out \o <<"D", "E", "F", "A", "U", "L", "T">> \o comma)
            ELSE pgInsertValues(columnKeys, hasIntId, i + 1, counter + 1,
                                Append(insertColumns, k),
                                out \o pgInsertPlaceholder(i, counter) \o comma)

pgGenerateInsertQuery(tableName, columnKeys, hasIntId) ==
    LET head == <<"I", "N", "S", "E", "R", "T", " ", "I", "N", "T", "O", " ">> \o pgEscapeReserved(tableName) \o <<" ", "(">>
                \o pgInsertColumnNames(columnKeys, 0) \o <<")", " ", "V", "A", "L", "U", "E", "S", " ", "(">>
        values == pgInsertValues(columnKeys, hasIntId, 0, 1, <<>>, head)
    IN [query |-> values.out \o <<")", " ", "R", "E", "T", "U", "R", "N", "I", "N", "G", " ", "i", "d">>, columns |-> values.insertColumns]

RECURSIVE sqliteInsertColumnNames(_, _)
sqliteInsertColumnNames(columnKeys, i) ==
    IF ~(i < Len(columnKeys)) THEN <<>>
    ELSE sqliteEscapeReserved(At(columnKeys, i)) \o CommaUnlessLast(i, Len(columnKeys))
         \o sqliteInsertColumnNames(columnKeys, i + 1)

\* A slip: the integer id bound like any other column.
sqliteIsIdentityColumnNever(hasIntId, k) == FALSE

\* if hasIntId && k == "id"
sqliteIsIdentityColumn(hasIntId, k) == hasIntId /\ k = IdColumn

RECURSIVE sqliteInsertValues(_, _, _, _, _)
sqliteInsertValues(columnKeys, hasIntId, i, insertColumns, out) ==
    IF ~(i < Len(columnKeys)) THEN [out |-> out, insertColumns |-> insertColumns]
    ELSE LET k == At(columnKeys, i)
             comma == CommaUnlessLast(i, Len(columnKeys))
         IN IF sqliteIsIdentityColumn(hasIntId, k)
            THEN sqliteInsertValues(columnKeys, hasIntId, i + 1, insertColumns,
                                    out \o <<"N", "U", "L", "L">> \o comma)
            ELSE sqliteInsertValues(columnKeys, hasIntId, i + 1, Append(insertColumns, k),
                                    out \o <<"?">> \o comma)

sqliteGenerateInsertQuery(tableName, columnKeys, hasIntId) ==
    LET head == <<"I", "N", "S", "E", "R", "T", " ", "I", "N", "T", "O", " ">> \o sqliteEscapeReserved(tableName) \o <<" ", "(">>
                \o sqliteInsertColumnNames(columnKeys, 0) \o <<")", " ", "V", "A", "L", "U", "E", "S", " ", "(">>
        values == sqliteInsertValues(columnKeys, hasIntId, 0, <<>>, head)
    IN [query |-> values.out \o <<")">>, columns |-> values.insertColumns]

GenerateInsertQuery(driver, tableName, columnKeys, hasIntId) ==
    CASE driver = PostgreSQL -> pgGenerateInsertQuery(tableName, columnKeys, hasIntId)
      [] driver = SQLite -> sqliteGenerateInsertQuery(tableName, columnKeys, hasIntId)
      [] driver = CustomDriver -> pgGenerateInsertQuery(tableName, columnKeys, hasIntId)

\* A slip: the SET placeholder numbered from 0.
pgUpdateAssignmentFromZero(k, i) == pgEscapeReserved(k) \o <<" ", "=", " ", "$">> \o Itoa(i)

\* WriteString(pgEscapeReserved(k)); WriteString(" = $" + strconv.Itoa(i+1))
pgUpdateAssignment(k, i) == pgEscapeReserved(k) \o <<" ", "=", " ", "$">> \o Itoa(i + 1)

RECURSIVE pgUpdateAssignments(_, _)
pgUpdateAssignments(columnKeys, i) ==
    IF ~(i < Len(columnKeys)) THEN <<>>
    ELSE pgUpdateAssignment(At(columnKeys, i), i) \o CommaUnlessLast(i, Len(columnKeys))
         \o pgUpdateAssignments(columnKeys, i + 1)

pgGenerateUpdateQuery(tableName, columnKeys) ==
    <<"U", "P", "D", "A", "T", "E", " ">> \o pgEscapeReserved(tableName) \o <<" ", "S", "E", "T", " ">>
    \o pgUpdateAssignments(columnKeys, 0) \o <<" ", "W", "H", "E", "R", "E", " ">>

\* WriteString(sqliteEscapeReserved(k)); WriteString(" = ?")
sqliteUpdateAssignment(k, i) == sqliteEscapeReserved(k) \o <<" ", "=", " ", "?">>

RECURSIVE sqliteUpdateAssignments(_, _)
sqliteUpdateAssignments(columnKeys, i) ==
    IF ~(i < Len(columnKeys)) THEN <<>>
    ELSE sqliteUpdateAssignment(At(columnKeys, i), i) \o CommaUnlessLast(i, Len(columnKeys))
         \o sqliteUpdateAssignments(columnKeys, i + 1)

sqliteGenerateUpdateQuery(tableName, columnKeys) ==
    <<"U", "P", "D", "A", "T", "E", " ">> \o sqliteEscapeReserved(tableName) \o <<" ", "S", "E", "T", " ">>
    \o sqliteUpdateAssignments(columnKeys, 0) \o <<" ", "W", "H", "E", "R", "E", " ">>

GenerateUpdateQuery(driver, tableName, columnKeys) ==
    CASE driver = PostgreSQL -> pgGenerateUpdateQuery(tableName, columnKeys)
      [] driver = SQLite -> sqliteGenerateUpdateQuery(tableName, columnKeys)
      [] driver = CustomDriver -> pgGenerateUpdateQuery(tableName, columnKeys)

(***************************************************************************)
(* pgRenumberPlaceholders.  The loop runs over the characters of where,    *)
(* carrying parsingIdentifier, offset and newWhere.                        *)
(***************************************************************************)
\* strings.Contains(where, "$")
ContainsDollar(where) == \E k \in 1..Len(where) : where[k] = "$"

RECURSIVE pgRenumberLoop(_, _, _, _, _)
pgRenumberLoop(where, p, parsingIdentifier, offset, newWhere) ==
    IF p > Len(where)
    THEN IF parsingIdentifier THEN newWhere \o Itoa(offset + 1) ELSE newWhere
    ELSE LET c == where[p]
         IN IF c = "$"
            THEN pgRenumberLoop(where, p + 1, TRUE, offset, Append(newWhere, c))
            ELSE IF parsingIdentifier
            THEN IF c \in Digits
                 THEN pgRenumberLoop(where, p + 1, TRUE, offset, newWhere)
                 ELSE pgRenumberLoop(where, p + 1, FALSE, offset + 1,
                                     newWhere \o Itoa(offset + 1) \o <<c>>)
            ELSE pgRenumberLoop(where, p + 1, FALSE, offset, Append(newWhere, c))

pgRenumberPlaceholders(where, offset) ==
    IF ~ContainsDollar(where) THEN where
    ELSE pgRenumberLoop(where, 1, FALSE, offset, <<>>)

(***************************************************************************)
(* JoinStringForIn: the placeholder list of an IN clause.  Both loops run  *)
(* i from 0 to count-1 and write a comma after every item but the last.    *)
(***************************************************************************)
CommaBeforeLast(i, count) == IF i < count - 1 THEN <<",">> ELSE <<>>

pgJoinItemIgnoringOffset(offset, i) == <<"$">> \o Itoa(i + 1)

\* "$" + strconv.Itoa(i+1+offset)
pgJoinItem(offset, i) == <<"$">> \o Itoa(i + 1 + offset)

RECURSIVE pgJoinLoop(_, _, _)
pgJoinLoop(offset, count, i) ==
    IF ~(i < count) THEN <<>>
    ELSE pgJoinItem(offset, i) \o CommaBeforeLast(i, count) \o pgJoinLoop(offset, count, i + 1)

pgJoinStringForIn(offset, count) == pgJoinLoop(offset, count, 0)

RECURSIVE sqliteJoinLoop(_, _)
sqliteJoinLoop(count, i) ==
    IF ~(i < count) THEN <<>>
    ELSE <<"?">> \o CommaBeforeLast(i, count) \o sqliteJoinLoop(count, i + 1)

sqliteJoinStringForIn(count) == sqliteJoinLoop(count, 0)

\* The driver method: PostgreSQL passes offset and count on, SQLite drops
\* the offset.
DriverJoinStringForIn(driver, offset, count) ==
    CASE driver = PostgreSQL -> pgJoinStringForIn(offset, count)
      [] driver = SQLite -> sqliteJoinStringForIn(count)
      [] driver = CustomDriver -> pgJoinStringForIn(offset, count)

(***************************************************************************)
(* Inputs of ParseNamedQuery.                                              *)
(***************************************************************************)
\* Longer texts after the cases of lit/parser_test.go, in the same characters:
\* ':val::text', ':val::numeric::text', a literal before a cast and a bare
\* colon, 'it''s :val' followed by a parameter, a parameter after a literal
\* that holds a quote of another kind, a parameter after a literal that ends
\* in a backslash, a parameter before and one after a quote that never closes.
ExampleQueries ==
    { <<":", "a", ":", ":", "_">>,
      <<":", "a", ":", ":", "a", ":", ":", "a">>,
      <<"'", ":", "a", "'", ":", ":", "a", ":">>,
      <<"'", "a", "'", "'", "_", ":", "a", "'", ":", "a">>,
      <<"\"", "'", ":", "_", "\"", ":", "a", ":", "a">>,
      <<"'", "a", "\\", "'", ":", "a">>,
      <<":", "a", "'", ":", "_">> }

Queries == SeqsUpTo(QueryAlphabet, MaxQueryLen) \cup ExampleQueries

\* Parameter maps; the empty map also stands for the nil map, which Go reads
\* like an empty one.
NoParams == [n \in {} |-> "none"]

ParamMaps ==
    { NoParams,
      (<<"a">> :> "va"),
      (<<"a">> :> "va") @@ (<<"_">> :> "vu") }

(***************************************************************************)
(* Inputs of the generators, of the escape functions and of                *)
(* pgRenumberPlaceholders.                                                 *)
(***************************************************************************)
MaxColumns == 3

MaxNameLen == 3

MaxWhereLen == 4

MaxOffset == 9

GeneratorDrivers == {PostgreSQL, SQLite}

TableNames == { <<"t">>, <<"a", "s">> }

\* "as" is a reserved word of both dialects, "at" of PostgreSQL alone.
ColumnNames == { IdColumn, <<"I", "d">>, <<"a">>, <<"a", "s">>, <<"a", "t">> }

ColumnLists == SeqsUpTo(ColumnNames, MaxColumns)

NameAlphabet == {"a", "A", "s", "t", "i", "d", "\""}

IdentifierNames == SeqsUpTo(NameAlphabet, MaxNameLen)

WhereAlphabet == {"$", "1", "2", "x"}

WhereFragments == SeqsUpTo(WhereAlphabet, MaxWhereLen)

MaxCount == 3

(***************************************************************************)
(* The program: a caller that invokes one function at a time.              *)
(***************************************************************************)
NoCall == [op |-> "none"]

\* make(map[reflect.Type]*FieldMap)
NoModels == [t \in {} |-> "none"]

Goroutines == {1, 2}

IdleFrame == [op |-> "none", stage |-> "idle"]

NoGoroutines == [g \in Goroutines |-> IdleFrame]

NoHeap == [params |-> NoParams, columns |-> <<>>]

Init ==
    /\ pc = "idle"
    /\ call = NoCall
    /\ ret = NoCall
    /\ StructToFieldMap = NoModels
    /\ defaultDriver = NilDriver
    /\ executor = <<>>
    /\ goroutines = NoGoroutines
    /\ heap = NoHeap

CallParseNamedQuery ==
    /\ pc = "idle"
    /\ \E driver \in Drivers \cup {NilDriver}, query \in Queries, params \in ParamMaps :
         /\ call' = [op |-> "ParseNamedQuery", driver |-> driver, query |-> query,
                     params |-> params]
         /\ ret' = ParseNamedQuery(driver, query, params)
    /\ pc' = "returned"
    /\ UNCHANGED litVars
    /\ UNCHANGED concVars

CallGenerateInsertQuery ==
    /\ pc = "idle"
    /\ \E driver \in GeneratorDrivers, tableName \in TableNames,
          columnKeys \in ColumnLists, hasIntId \in BOOLEAN :
         /\ call' = [op |-> "GenerateInsertQuery", driver |-> driver,
                     tableName |-> tableName, columnKeys |-> columnKeys,
                     hasIntId |-> hasIntId]
         /\ ret' = GenerateInsertQuery(driver, tableName, columnKeys, hasIntId)
    /\ pc' = "returned"
    /\ UNCHANGED litVars
    /\ UNCHANGED concVars

CallGenerateUpdateQuery ==
    /\ pc = "idle"
    /\ \E driver \in GeneratorDrivers, tableName \in TableNames, columnKeys \in ColumnLists :
         /\ call' = [op |-> "GenerateUpdateQuery", driver |-> driver,
                     tableName |-> tableName, columnKeys |-> columnKeys]
         /\ ret' = [query |-> GenerateUpdateQuery(driver, tableName, columnKeys)]
    /\ pc' = "returned"
    /\ UNCHANGED litVars
    /\ UNCHANGED concVars

CallEscapeReserved ==
    /\ pc = "idle"
    /\ \E driver \in GeneratorDrivers, name \in IdentifierNames :
         /\ call' = [op |-> "EscapeReserved", driver |-> driver, name |-> name]
         /\ ret' = [text |-> EscapeReserved(driver, name)]
    /\ pc' = "returned"
    /\ UNCHANGED litVars
    /\ UNCHANGED concVars

CallRenumberPlaceholders ==
    /\ pc = "idle"
    /\ \E where \in WhereFragments, offset \in 0..MaxOffset :
         /\ call' = [op |-> "pgRenumberPlaceholders", where |-> where, offset |-> offset]
         /\ ret' = [text |-> pgRenumberPlaceholders(where, offset)]
    /\ pc' = "returned"
    /\ UNCHANGED litVars
    /\ UNCHANGED concVars

CallJoinStringForIn ==
    /\ pc = "idle"
    /\ \E driver \in GeneratorDrivers, offset \in 0..MaxOffset, count \in 0..MaxCount :
         /\ call' = [op |-> "JoinStringForIn", driver |-> driver, offset |-> offset,
                     count |-> count]
         /\ ret' = [text |-> DriverJoinStringForIn(driver, offset, count)]
    /\ pc' = "returned"
    /\ UNCHANGED litVars
    /\ UNCHANGED concVars

Return ==
    /\ pc = "returned"
    /\ pc' = "idle"
    /\ call' = NoCall
    /\ ret' = NoCall
    /\ executor' = <<>>
    /\ UNCHANGED <<StructToFieldMap, defaultDriver>>
    /\ UNCHANGED concVars

Next ==
    \/ CallParseNamedQuery
    \/ CallGenerateInsertQuery
    \/ CallGenerateUpdateQuery
    \/ CallEscapeReserved
    \/ CallRenumberPlaceholders
    \/ CallJoinStringForIn
    \/ Return

Spec == Init /\ [][Next]_vars

(***************************************************************************)
(* The lexical structure of a query text as section 4.4 of the design      *)
(* states it, one tag per character:                                       *)
(*   open, lit, close  the delimiters and the content of a quoted literal  *)
(*   cast              either colon of a '::'                              *)
(*   colon, name       the colon and the name characters of a named token  *)
(*   bare              any other colon                                     *)
(*   plain             any other character                                 *)
(* The claims about ParseNamedQuery are stated against these tags.         *)
(***************************************************************************)
QuoteChars == {"'", "\"", Backtick}

IdentStart(c) == c \in Letters \cup {"_"}

IdentChar(c) == c \in Letters \cup Digits \cup {"_"}

BackslashDialect(driver) == driver = MySQL

NumberedDialect(driver) == driver = PostgreSQL

RECURSIVE Lex(_, _, _, _)
Lex(driver, text, p, mode) ==
    IF p > Len(text) THEN <<>>
    ELSE LET c == text[p]
             next == IF p < Len(text) THEN text[p + 1] ELSE "END"
         IN CASE mode = "text" ->
                   IF c \in QuoteChars THEN <<"open">> \o Lex(driver, text, p + 1, c)
                   ELSE IF c = ":" /\ next = ":"
                   THEN <<"cast", "cast">> \o Lex(driver, text, p + 2, "text")
                   ELSE IF c = ":" /\ IdentStart(next)
                   THEN <<"colon">> \o Lex(driver, text, p + 1, "name")
                   ELSE IF c = ":" THEN <<"bare">> \o Lex(driver, text, p + 1, "text")
                   ELSE <<"plain">> \o Lex(driver, text, p + 1, "text")
              [] mode = "name" ->
                   IF IdentChar(c) THEN <<"name">> \o Lex(driver, text, p + 1, "name")
                   ELSE Lex(driver, text, p, "text")
              [] OTHER ->
                   IF BackslashDialect(driver) /\ mode # Backtick /\ c = "\\" /\ next # "END"
                   THEN <<"lit", "lit">> \o Lex(driver, text, p + 2, mode)
                   ELSE IF c = mode /\ next = mode
                   THEN <<"lit", "lit">> \o Lex(driver, text, p + 2, mode)
                   ELSE IF c = mode THEN <<"close">> \o Lex(driver, text, p + 1, "text")
                   ELSE <<"lit">> \o Lex(driver, text, p + 1, mode)

Tags(driver, text) == Lex(driver, text, 1, "text")

\* The end of the run of name characters that starts after position p.
RECURSIVE NameRunEnd(_, _)
NameRunEnd(tags, p) ==
    IF p < Len(tags) /\ tags[p + 1] = "name" THEN NameRunEnd(tags, p + 1) ELSE p

\* The names of the named tokens outside literals, left to right.
RECURSIVE TokensFrom(_, _, _)
TokensFrom(tags, text, p) ==
    IF p > Len(text) THEN <<>>
    ELSE IF tags[p] = "colon"
    THEN <<SubSeq(text, p + 1, NameRunEnd(tags, p))>> \o TokensFrom(tags, text, p + 1)
    ELSE TokensFrom(tags, text, p + 1)

Tokens(driver, text) == TokensFrom(Tags(driver, text), text, 1)

\* The characters of a text that carry one of the given tags, in order.
RECURSIVE Tagged(_, _, _, _)
Tagged(tags, text, wanted, p) ==
    IF p > Len(text) THEN <<>>
    ELSE (IF tags[p] \in wanted THEN <<text[p]>> ELSE <<>>) \o Tagged(tags, text, wanted, p + 1)

LiteralText(driver, text) ==
    Tagged(Tags(driver, text), text, {"open", "lit", "close"}, 1)

CastCount(driver, text) ==
    LET tags == Tags(driver, text)
    IN Cardinality({p \in 1..Len(text) : tags[p] = "cast"}) \div 2

\* The placeholders of a rewritten text, left to right: under a numbered
\* dialect every '$' with the digits after it, otherwise every '?'.  The texts
\* given to the rewriter hold neither character.
RECURSIVE DigitRunEnd(_, _)
DigitRunEnd(text, p) ==
    IF p < Len(text) /\ text[p + 1] \in Digits THEN DigitRunEnd(text, p + 1) ELSE p

RECURSIVE PlaceholdersFrom(_, _, _)
PlaceholdersFrom(driver, text, p) ==
    IF p > Len(text) THEN <<>>
    ELSE IF NumberedDialect(driver) /\ text[p] = "$"
    THEN <<SubSeq(text, p, DigitRunEnd(text, p))>> \o PlaceholdersFrom(driver, text, p + 1)
    ELSE IF ~NumberedDialect(driver) /\ text[p] = "?"
    THEN <<<<"?">>>> \o PlaceholdersFrom(driver, text, p + 1)
    ELSE PlaceholdersFrom(driver, text, p + 1)

EmittedPlaceholders(driver, text) == PlaceholdersFrom(driver, text, 1)

\* The decimal numeral of k, written out independently of Itoa.
Numeral(k) ==
    IF k < 10 THEN <<DigitChar(k)>> ELSE <<DigitChar(k \div 10), DigitChar(k % 10)>>

ExpectedPlaceholder(driver, k) ==
    IF NumberedDialect(driver) THEN <<"$">> \o Numeral(k) ELSE <<"?">>

Parsed == pc = "returned" /\ call.op = "ParseNamedQuery" /\ call.driver # NilDriver

MissingTokens(toks, params) == {k \in 1..Len(toks) : toks[k] \notin DOMAIN params}

Min(S) == CHOOSE m \in S : \A n \in S : m <= n

(***************************************************************************)
(* C1: when ParseNamedQuery succeeds, the placeholders in the returned     *)
(* text are as many as the returned arguments, the k-th placeholder is the *)
(* driver's Placeholder(k), and the k-th argument is the map value of the  *)
(* k-th named token outside literals; a repeated name takes a new slot and *)
(* its value again at each occurrence.                                     *)
(***************************************************************************)
C1_PlaceholdersMatchArguments ==
    (Parsed /\ ret.err.isNil) =>
        LET toks == Tokens(call.driver, call.query)
            ph == EmittedPlaceholders(call.driver, ret.query)
        IN /\ Len(ph) = Len(ret.args)
           /\ \A k \in 1..Len(ph) : ph[k] = ExpectedPlaceholder(call.driver, k)
           /\ Len(ret.args) = Len(toks)
           /\ \A k \in 1..Len(toks) : ret.args[k] = call.params[toks[k]]

\* A successful PostgreSQL rewrite of a text in which one name occurs twice.
C1_Witness ==
    /\ Parsed /\ ret.err.isNil /\ call.driver = PostgreSQL
    /\ Tokens(call.driver, call.query) = << <<"a">>, <<"a">> >>
    /\ ret.args = <<"va", "va">>
    /\ EmittedPlaceholders(call.driver, ret.query) = << <<"$", "1">>, <<"$", "2">> >>

(***************************************************************************)
(* C2: when some named token outside literals has no entry in the          *)
(* parameter map, ParseNamedQuery returns an error that names the leftmost *)
(* missing parameter, with an empty text and no arguments, also when       *)
(* earlier tokens were resolved.                                           *)
(***************************************************************************)
C2_MissingParameterError ==
    Parsed =>
        LET toks == Tokens(call.driver, call.query)
            missing == MissingTokens(toks, call.params)
        IN missing # {} =>
             /\ ~ret.err.isNil
             /\ ret.err.msg = MissingParameterPrefix \o toks[Min(missing)]
             /\ ret.query = <<>>
             /\ ret.args = <<>>

\* The first token is in the map, the second is not, and the call failed.
C2_Witness ==
    /\ Parsed /\ ~ret.err.isNil
    /\ LET toks == Tokens(call.driver, call.query)
       IN /\ Len(toks) >= 2
          /\ toks[1] \in DOMAIN call.params
          /\ toks[2] \notin DOMAIN call.params

(***************************************************************************)
(* C3: what lies inside a quoted literal is copied verbatim.  The literal  *)
(* text of the result is the literal text of the input, a ':name' inside a *)
(* literal takes no bind slot, and it is never looked up: the call fails   *)
(* only when a token outside literals is missing from the map.             *)
(***************************************************************************)
C3_LiteralsCopiedVerbatim ==
    Parsed =>
        LET toks == Tokens(call.driver, call.query)
        IN /\ ret.err.isNil <=> MissingTokens(toks, call.params) = {}
           /\ ret.err.isNil =>
                /\ LiteralText(call.driver, ret.query) = LiteralText(call.driver, call.query)
                /\ Len(ret.args) = Len(toks)
                /\ Len(EmittedPlaceholders(call.driver, ret.query)) = Len(toks)

\* A ':name' whose name is not in the map, inside a literal that also holds a
\* quote of another kind, followed by a parameter outside the literal.
C3_Witness ==
    /\ Parsed /\ ret.err.isNil
    /\ call.query = <<"\"", "'", ":", "_", "\"", ":", "a", ":", "a">>
    /\ <<"_">> \notin DOMAIN call.params
    /\ Len(ret.args) = 2

(***************************************************************************)
(* C4: outside literals '::' is emitted as it is and the scan resumes      *)
(* after both colons: the result has the same casts as the input, an       *)
(* identifier after '::' takes no slot and needs no map entry, and a       *)
(* ':name' directly before '::' is replaced.                               *)
(***************************************************************************)
C4_DoubleColonEmittedLiterally ==
    (Parsed /\ CastCount(call.driver, call.query) > 0) =>
        LET toks == Tokens(call.driver, call.query)
        IN /\ ret.err.isNil <=> MissingTokens(toks, call.params) = {}
           /\ ret.err.isNil =>
                /\ CastCount(call.driver, ret.query) = CastCount(call.driver, call.query)
                /\ Len(ret.args) = Len(toks)
           /\ (call.driver = PostgreSQL /\ <<"a">> \in DOMAIN call.params) =>
                /\ call.query = <<":", "a", ":", ":", "_">> =>
                     ret.query = <<"$", "1", ":", ":", "_">>
                /\ call.query = <<":", "a", ":", ":", "a", ":", ":", "a">> =>
                     ret.query = <<"$", "1", ":", ":", "a", ":", ":", "a">>

\* ':a::_' under PostgreSQL with a map that holds a and not _.
C4_Witness ==
    /\ Parsed /\ ret.err.isNil /\ call.driver = PostgreSQL
    /\ call.query = <<":", "a", ":", ":", "_">>
    /\ DOMAIN call.params = {<<"a">>}
    /\ ret.args = <<"va">>

(***************************************************************************)
(* C5: a text with no named token outside literals is returned as it is,   *)
(* with no arguments and no error, whatever the parameter map holds.       *)
(***************************************************************************)
C5_NoTokenTextUnchanged ==
    (Parsed /\ Tokens(call.driver, call.query) = <<>>) =>
        /\ ret.query = call.query
        /\ ret.args = <<>>
        /\ ret.err.isNil

\* A text with a literal that holds ':a', a cast and a bare colon, with a map
\* whose entries are not used.
C5_Witness ==
    /\ Parsed /\ ret.err.isNil
    /\ call.query = <<"'", ":", "a", "'", ":", ":", "a", ":">>
    /\ DOMAIN call.params = {<<"a">>, <<"_">>}
    /\ ret.query = call.query

(***************************************************************************)
(* Reading a generated statement back: the items of its VALUES list, the   *)
(* assignments of its SET list.                                            *)
(***************************************************************************)
RECURSIVE SplitFrom(_, _, _, _)
SplitFrom(text, sep, p, item) ==
    IF p > Len(text) THEN <<item>>
    ELSE IF text[p] = sep THEN <<item>> \o SplitFrom(text, sep, p + 1, <<>>)
    ELSE SplitFrom(text, sep, p + 1, Append(item, text[p]))

\* The items between separators; an empty text has no item.
SplitOn(text, sep) == IF text = <<>> THEN <<>> ELSE SplitFrom(text, sep, 1, <<>>)

LastIndexOf(text, c) ==
    LET at == {p \in 1..Len(text) : text[p] = c}
    IN IF at = {} THEN 0 ELSE CHOOSE p \in at : \A q \in at : q <= p

\* What stands between the last '(' of the statement and the ')' after it.
ValuesList(text) ==
    LET open == LastIndexOf(text, "(")
        close == CHOOSE p \in (open + 1)..Len(text) :
                    text[p] = ")" /\ \A q \in (open + 1)..(p - 1) : text[q] # ")"
    IN SubSeq(text, open + 1, close - 1)

StartsWith(text, prefix) ==
    Len(prefix) <= Len(text) /\ SubSeq(text, 1, Len(prefix)) = prefix

EndsWith(text, suffix) ==
    Len(suffix) <= Len(text)
    /\ SubSeq(text, Len(text) - Len(suffix) + 1, Len(text)) = suffix

IdentityToken(driver) == IF driver = PostgreSQL THEN <<"D", "E", "F", "A", "U", "L", "T">> ELSE <<"N", "U", "L", "L">>

IsPlaceholderItem(driver, item) ==
    IF NumberedDialect(driver)
    THEN Len(item) >= 2 /\ item[1] = "$" /\ \A p \in 2..Len(item) : item[p] \in Digits
    ELSE item = <<"?">>

\* The positions of the placeholders among the items, ascending.
RECURSIVE PlaceholderPositions(_, _, _)
PlaceholderPositions(driver, items, j) ==
    IF j > Len(items) THEN <<>>
    ELSE (IF IsPlaceholderItem(driver, items[j]) THEN <<j>> ELSE <<>>)
         \o PlaceholderPositions(driver, items, j + 1)

\* The columns of a list that are not the integer identity column, in order.
RECURSIVE NonIdentityColumns(_, _)
NonIdentityColumns(columnKeys, hasIntId) ==
    IF columnKeys = <<>> THEN <<>>
    ELSE (IF hasIntId /\ Head(columnKeys) = <<"i", "d">> THEN <<>> ELSE <<Head(columnKeys)>>)
         \o NonIdentityColumns(Tail(columnKeys), hasIntId)

InsertGenerated == pc = "returned" /\ call.op = "GenerateInsertQuery"

UpdateGenerated == pc = "returned" /\ call.op = "GenerateUpdateQuery"

(***************************************************************************)
(* C6: GenerateInsertQuery writes the dialect's identity token (DEFAULT    *)
(* for PostgreSQL, NULL for SQLite) in the VALUES list and leaves the      *)
(* column out of the argument columns exactly when hasIntId is true and    *)
(* the key is "id"; every other column gets a placeholder and is an        *)
(* argument column.                                                        *)
(***************************************************************************)
C6_IdentityColumnDefaulted ==
    InsertGenerated =>
        LET items == SplitOn(ValuesList(ret.query), ",")
        IN /\ Len(items) = Len(call.columnKeys)
           /\ \A j \in 1..Len(items) :
                IF call.hasIntId /\ call.columnKeys[j] = <<"i", "d">>
                THEN items[j] = IdentityToken(call.driver)
                ELSE IsPlaceholderItem(call.driver, items[j])
           /\ ret.columns = NonIdentityColumns(call.columnKeys, call.hasIntId)

\* An "id" column defaulted under hasIntId, beside an "Id" column that is bound.
C6_Witness ==
    /\ InsertGenerated /\ call.driver = SQLite /\ call.hasIntId
    /\ call.columnKeys = << <<"i", "d">>, <<"I", "d">>, <<"a">> >>
    /\ SplitOn(ValuesList(ret.query), ",") = << <<"N", "U", "L", "L">>, <<"?">>, <<"?">> >>
    /\ ret.columns = << <<"I", "d">>, <<"a">> >>

(***************************************************************************)
(* C7: the placeholders in the VALUES list of GenerateInsertQuery are as   *)
(* many as the returned argument columns, and the j-th placeholder stands  *)
(* at the position of the j-th returned column.  Under PostgreSQL they are *)
(* $1..$m without gaps, whatever the positions of the columns.             *)
(***************************************************************************)
C7_InsertPlaceholdersMatchColumns ==
    InsertGenerated =>
        LET items == SplitOn(ValuesList(ret.query), ",")
            at == PlaceholderPositions(call.driver, items, 1)
        IN /\ Len(items) = Len(call.columnKeys)
           /\ Len(at) = Len(ret.columns)
           /\ \A j \in 1..Len(at) : call.columnKeys[at[j]] = ret.columns[j]
           /\ call.driver = PostgreSQL =>
                \A j \in 1..Len(at) : items[at[j]] = <<"$">> \o Itoa(j)

\* The identity column in the middle: the column after it is $2, not $3.
C7_Witness ==
    /\ InsertGenerated /\ call.driver = PostgreSQL /\ call.hasIntId
    /\ call.columnKeys = << <<"a">>, <<"i", "d">>, <<"a", "s">> >>
    /\ ValuesList(ret.query) = <<"$", "1", ",", "D", "E", "F", "A", "U", "L", "T", ",", "$", "2">>
    /\ ret.columns = << <<"a">>, <<"a", "s">> >>

(***************************************************************************)
(* C8: GenerateUpdateQuery returns 'UPDATE <escaped table> SET ', then     *)
(* '<escaped column> = <placeholder>' for every column in list order,      *)
(* joined by commas, then ' WHERE ' and nothing after it.  Under           *)
(* PostgreSQL the column at position i has $i, the identity column         *)
(* included; under SQLite every placeholder is '?'.                        *)
(***************************************************************************)
C8_UpdateStatementShape ==
    UpdateGenerated =>
        LET prefix == <<"U", "P", "D", "A", "T", "E", " ">> \o EscapeReserved(call.driver, call.tableName) \o <<" ", "S", "E", "T", " ">>
            suffix == <<" ", "W", "H", "E", "R", "E", " ">>
            text == ret.query
            middle == SubSeq(text, Len(prefix) + 1, Len(text) - Len(suffix))
            items == SplitOn(middle, ",")
        IN /\ StartsWith(text, prefix)
           /\ EndsWith(text, suffix)
           /\ Len(prefix) + Len(suffix) <= Len(text)
           /\ Len(items) = Len(call.columnKeys)
           /\ \A i \in 1..Len(items) :
                items[i] = EscapeReserved(call.driver, call.columnKeys[i]) \o <<" ", "=", " ">>
                           \o ExpectedPlaceholder(call.driver, i)

\* The identity column is not skipped and a reserved column is quoted.
C8_Witness ==
    /\ UpdateGenerated /\ call.driver = PostgreSQL
    /\ call.columnKeys = << <<"i", "d">>, <<"a", "s">> >>
    /\ ret.query = <<"U", "P", "D", "A", "T", "E", " ", "t", " ", "S", "E", "T", " ", "i", "d", " ", "=", " ", "$", "1", ",", "\"", "a", "s", "\"", " ", "=", " ", "$", "2", " ", "W", "H", "E", "R", "E", " ">>

ReservedWords(driver) ==
    IF driver = PostgreSQL THEN pgReservedKeywords ELSE sqliteReservedKeywords

QuoteCount(text) == Cardinality({p \in 1..Len(text) : text[p] = "\""})

WithoutQuotes(text) == SelectSeq(text, LAMBDA c : c # "\"")

(***************************************************************************)
(* C9: pgEscapeReserved and sqliteEscapeReserved return the name as it is  *)
(* when its upper-cased form is not a reserved word of the dialect, and    *)
(* otherwise the name in double quotes, its letter case kept and every     *)
(* double quote in it doubled.                                             *)
(***************************************************************************)
C9_EscapeReserved ==
    (pc = "returned" /\ call.op = "EscapeReserved") =>
        IF ToUpper(call.name) \in ReservedWords(call.driver)
        THEN LET inner == SubSeq(ret.text, 2, Len(ret.text) - 1)
             IN /\ Len(ret.text) >= 2
                /\ ret.text[1] = "\"" /\ ret.text[Len(ret.text)] = "\""
                /\ WithoutQuotes(inner) = WithoutQuotes(call.name)
                /\ QuoteCount(inner) = 2 * QuoteCount(call.name)
        ELSE ret.text = call.name

\* A reserved word in mixed case, quoted with its case kept.
C9_Witness ==
    /\ pc = "returned" /\ call.op = "EscapeReserved" /\ call.driver = PostgreSQL
    /\ call.name = <<"A", "s">>
    /\ ret.text = <<"\"", "A", "s", "\"">>

DigitValue(c) == CHOOSE d \in 0..9 : DigitChar(d) = c

\* The number a run of digits denotes.
RECURSIVE Atoi(_)
Atoi(digits) ==
    IF digits = <<>> THEN 0
    ELSE 10 * Atoi(SubSeq(digits, 1, Len(digits) - 1)) + DigitValue(digits[Len(digits)])

\* The fragment with offset added to the numeral of every placeholder.
RECURSIVE AddOffset(_, _, _)
AddOffset(where, offset, p) ==
    IF p > Len(where) THEN <<>>
    ELSE IF where[p] = "$" /\ DigitRunEnd(where, p) > p
    THEN LET e == DigitRunEnd(where, p)
         IN <<"$">> \o Itoa(Atoi(SubSeq(where, p + 1, e)) + offset)
            \o AddOffset(where, offset, e + 1)
    ELSE <<where[p]>> \o AddOffset(where, offset, p + 1)

(***************************************************************************)
(* C10: pgRenumberPlaceholders(where, offset) returns the fragment with    *)
(* every placeholder $N rewritten to $(N+offset) and every other character *)
(* unchanged and in place, for every numeral N (of several digits,         *)
(* repeated, out of ascending order, at the end of the string); a '$' that *)
(* no digit follows is not a placeholder and stays as it is.               *)
(***************************************************************************)
C10_RenumberAddsOffset ==
    (pc = "returned" /\ call.op = "pgRenumberPlaceholders") =>
        ret.text = AddOffset(call.where, call.offset, 1)


(***************************************************************************)
(* C11.  The driver method JoinStringForIn(offset, count) returns exactly  *)
(* count placeholders joined by single commas, with no comma before the    *)
(* first or after the last, and the empty text when count is 0.  Under     *)
(* PostgreSQL the i-th placeholder is $(offset+i), in ascending order;     *)
(* under SQLite every placeholder is '?' whatever the offset.              *)
(***************************************************************************)
C11_JoinStringForIn ==
    (pc = "returned" /\ call.op = "JoinStringForIn") =>
        LET items == SplitOn(ret.text, ",")
        IN /\ Len(items) = call.count
           /\ call.count = 0 => ret.text = <<>>
           /\ ret.text # <<>> => (ret.text[1] # "," /\ ret.text[Len(ret.text)] # ",")
           /\ \A i \in 1..Len(items) :
                items[i] = IF call.driver = PostgreSQL
                           THEN <<"$">> \o Numeral(call.offset + i)
                           ELSE <<"?">>

\* PostgreSQL with a non-zero offset and three items, two of them of two
\* digits.
C11_Witness ==
    /\ pc = "returned" /\ call.op = "JoinStringForIn"
    /\ call.driver = PostgreSQL /\ call.offset = 8 /\ call.count = 3
    /\ ret.text = <<"$", "9", ",", "$", "1", "0", ",", "$", "1", "1">>

(***************************************************************************)
(* The lit layer: naming, model registration, the registry and the         *)
(* operations that reach the executor.  A model type is a record of its Go *)
(* name and its fields; a field has a Go name, a lit tag (empty when the   *)
(* struct gives none) and the fact whether its type is int.                *)
(***************************************************************************)
\* unicode.IsUpper, unicode.IsLower and unicode.ToLower on the letters of the
\* model.
IsUpper(r) == r \in {"A", "D", "I", "S", "T", "X"}

IsLower(r) == r \in {"a", "d", "i", "s", "t", "x"}

LowerRune(r) ==
    CASE r = "A" -> "a" [] r = "D" -> "d" [] r = "I" -> "i" [] r = "S" -> "s"
      [] r = "T" -> "t" [] r = "X" -> "x" [] OTHER -> r

\* The underscore toSnakeCase writes before the upper-case rune at i.
SnakeUnderscore(runes, i) ==
    IF i > 0
       /\ \/ IsLower(At(runes, i - 1))
          \/ /\ IsUpper(At(runes, i - 1))
             /\ i + 1 < Len(runes)
             /\ IsLower(At(runes, i + 1))
    THEN <<"_">>
    ELSE <<>>

RECURSIVE toSnakeCaseLoop(_, _)
toSnakeCaseLoop(runes, i) ==
    IF ~(i < Len(runes)) THEN <<>>
    ELSE (IF IsUpper(At(runes, i))
          THEN SnakeUnderscore(runes, i) \o <<LowerRune(At(runes, i))>>
          ELSE <<At(runes, i)>>)
         \o toSnakeCaseLoop(runes, i + 1)

toSnakeCase(input) == toSnakeCaseLoop(input, 0)

GetTableNameFromStructName(input) == toSnakeCase(input) \o <<"s">>

GetColumnNameFromStructName(input) == toSnakeCase(input)

\* field.Tag.Get("lit"), or the naming strategy when the tag is empty.
ColumnName(field) ==
    IF field.tag = <<>> THEN GetColumnNameFromStructName(field.name) ELSE field.tag

ColumnKeysOf(t) == [i \in 1..Len(t.fields) |-> ColumnName(t.fields[i])]

HasIntIdOf(t) ==
    \E i \in 1..Len(t.fields) : ColumnName(t.fields[i]) = IdColumn /\ t.fields[i].isInt

\* columnsMap[name] = i for every field in turn: the last field of a name
\* stays, with its 0-based index.
ColumnsMapOf(t) ==
    LET keys == ColumnKeysOf(t)
    IN [name \in {keys[i] : i \in 1..Len(keys)} |->
          (CHOOSE i \in 1..Len(keys) :
              keys[i] = name /\ \A j \in 1..Len(keys) : keys[j] = name => j <= i) - 1]

\* A slip: the default driver preferred to the one given.
RegisterModelWithNamingUnderDefault(t, driver) ==
    LET d == IF defaultDriver # NilDriver THEN defaultDriver ELSE driver
        tableName == GetTableNameFromStructName(t.name)
        columnKeys == ColumnKeysOf(t)
        hasIntId == HasIntIdOf(t)
        insert == GenerateInsertQuery(d, tableName, columnKeys, hasIntId)
    IN [ColumnsMap |-> ColumnsMapOf(t),
        ColumnKeys |-> columnKeys,
        HasIntId |-> hasIntId,
        InsertQuery |-> insert.query,
        UpdateQuery |-> GenerateUpdateQuery(d, tableName, columnKeys),
        InsertColumns |-> insert.columns,
        Driver |-> d]

\* The FieldMap RegisterModelWithNaming stores for t under a driver that is
\* not nil.
RegisterModelWithNaming(t, driver) ==
    LET tableName == GetTableNameFromStructName(t.name)
        columnKeys == ColumnKeysOf(t)
        hasIntId == HasIntIdOf(t)
        insert == GenerateInsertQuery(driver, tableName, columnKeys, hasIntId)
    IN [ColumnsMap |-> ColumnsMapOf(t),
        ColumnKeys |-> columnKeys,
        HasIntId |-> hasIntId,
        InsertQuery |-> insert.query,
        UpdateQuery |-> GenerateUpdateQuery(driver, tableName, columnKeys),
        InsertColumns |-> insert.columns,
        Driver |-> driver]

NoDefaultDriverMsg ==
    << "n", "o", " ", "d", "r", "i", "v", "e", "r", " ", "p", "r", "o", "v",
       "i", "d", "e", "d", " ", "a", "n", "d", " ", "n", "o", " ", "d", "e",
       "f", "a", "u", "l", "t", " ", "d", "r", "i", "v", "e", "r", " ", "s",
       "e", "t", "." >>

NonRegisteredModelPrefix ==
    << "n", "o", "n", " ", "r", "e", "g", "i", "s", "t", "e", "r", "e", "d",
       " ", "m", "o", "d", "e", "l", " " >>

NonRegisteredModelUnnamed(name) ==
    <<"u", "n", "k", "n", "o", "w", "n", " ", "m", "o", "d", "e", "l">>

\* "non registered model %s used. Please call `lit.RegisterModel[%s](driver)`
\* after you define %s"
NonRegisteredModel(name) ==
    NonRegisteredModelPrefix \o name
    \o
       << " ", "u", "s", "e", "d", ".", " ", "P", "l", "e", "a", "s", "e",
          " ", "c", "a", "l", "l", " ", Backtick, "l", "i", "t", ".", "R",
          "e", "g", "i", "s", "t", "e", "r", "M", "o", "d", "e", "l", "[" >>
    \o name
    \o
       << "]", "(", "d", "r", "i", "v", "e", "r", ")", Backtick, " ", "a",
          "f", "t", "e", "r", " ", "y", "o", "u", " ", "d", "e", "f", "i",
          "n", "e", " " >>
    \o name

NilFieldMap == [isNil |-> TRUE]

GetFieldMap(t) ==
    IF t \in DOMAIN StructToFieldMap
    THEN [val |-> StructToFieldMap[t], err |-> NilError]
    ELSE [val |-> NilFieldMap, err |-> ErrorOf(NonRegisteredModel(t.name))]

InvalidColumnPrefix ==
    << "i", "n", "v", "a", "l", "i", "d", " ", "c", "o", "l", "u", "m", "n",
       " ", "t", "h", "a", "t", " ", "i", "s", " ", "n", "o", "t", " ", "f",
       "o", "u", "n", "d", " ", "i", "n", " ", "t", "h", "e", " ", "s", "t",
       "r", "u", "c", "t", ":", " " >>

\* The error for the first column that is not among the column keys.
ValidateColumns(columns, fieldMap) ==
    LET known == {fieldMap.ColumnKeys[j] : j \in 1..Len(fieldMap.ColumnKeys)}
        bad == {i \in 1..Len(columns) : columns[i] \notin known}
    IN IF bad = {} THEN NilError
       ELSE ErrorOf(InvalidColumnPrefix \o columns[Min(bad)])

\* One pointer per column, to the field of t the columns map names.
GetPointersForColumns(columns, fieldMap) ==
    [i \in 1..Len(columns) |-> [field |-> fieldMap.ColumnsMap[columns[i]]]]

(***************************************************************************)
(* The executor.  Its answers are inputs of a call: the error of Exec or   *)
(* Query, the error of Scan, LastInsertId or of reading the rows, the id   *)
(* the database gives and the number of rows.  Every call it receives is   *)
(* appended to the log in the order made, Scan and LastInsertId included.  *)
(***************************************************************************)
ExecFailed == ErrorOf(<<"e", "x", "e", "c">>)

RowFailed == ErrorOf(<<"r", "o", "w">>)

ExecutorCall(method, query, args) == [method |-> method, query |-> query, args |-> args]

ResultCall(method) == [method |-> method, query |-> <<>>, args |-> <<>>]

pgInsertAndGetIdByExec(query, args, o) ==
    IF o.execErr # NilError
    THEN [id |-> 0, err |-> o.execErr, log |-> <<ExecutorCall("Exec", query, args)>>]
    ELSE [id |-> o.id, err |-> NilError, log |-> <<ExecutorCall("Exec", query, args)>>]

\* row := ex.QueryRow(query, args...); err := row.Scan(&id)
pgInsertAndGetId(query, args, o) ==
    LET log == <<ExecutorCall("QueryRow", query, args), ResultCall("Scan")>>
    IN IF o.rowErr # NilError
       THEN [id |-> 0, err |-> o.rowErr, log |-> log]
       ELSE [id |-> o.id, err |-> NilError, log |-> log]

\* result, err := ex.Exec(query, args...); id, err := result.LastInsertId()
sqliteInsertAndGetId(query, args, o) ==
    IF o.execErr # NilError
    THEN [id |-> 0, err |-> o.execErr, log |-> <<ExecutorCall("Exec", query, args)>>]
    ELSE LET log == <<ExecutorCall("Exec", query, args), ResultCall("LastInsertId")>>
         IN IF o.rowErr # NilError
            THEN [id |-> 0, err |-> o.rowErr, log |-> log]
            ELSE [id |-> o.id, err |-> NilError, log |-> log]

InsertAndGetId(driver, query, args, o) ==
    CASE driver = PostgreSQL -> pgInsertAndGetId(query, args, o)
      [] driver = SQLite -> sqliteInsertAndGetId(query, args, o)
      [] driver = CustomDriver -> pgInsertAndGetId(query, args, o)

Insert(t, o) ==
    LET got == GetFieldMap(t)
    IN IF got.err # NilError THEN [id |-> 0, err |-> got.err, log |-> <<>>]
       ELSE LET fieldMap == got.val
                invalid == ValidateColumns(fieldMap.InsertColumns, fieldMap)
            IN IF invalid # NilError THEN [id |-> 0, err |-> invalid, log |-> <<>>]
               ELSE InsertAndGetId(fieldMap.Driver, fieldMap.InsertQuery,
                                   GetPointersForColumns(fieldMap.InsertColumns, fieldMap), o)

WhereNotPresentMsg ==
    << "p", "a", "r", "a", "m", "e", "t", "e", "r", " ", "'", "w", "h", "e",
       "r", "e", "'", " ", "w", "a", "s", " ", "n", "o", "t", " ", "p", "r",
       "e", "s", "e", "n", "t" >>

\* strings.Count(s, "$")
CountDollar(s) == Cardinality({k \in 1..Len(s) : s[k] = "$"})

\* offset := strings.Count(fieldMap.UpdateQuery, "$")
UpdateOffset(updateQuery) == CountDollar(updateQuery)

UpdateWithoutWhereCheck(where) == FALSE

\* len(where) == 0
WhereIsEmpty(where) == Len(where) = 0

Update(t, where, args, o) ==
    IF WhereIsEmpty(where) THEN [err |-> ErrorOf(WhereNotPresentMsg), log |-> <<>>]
    ELSE LET got == GetFieldMap(t)
         IN IF got.err # NilError THEN [err |-> got.err, log |-> <<>>]
            ELSE LET fieldMap == got.val
                     invalid == ValidateColumns(fieldMap.ColumnKeys, fieldMap)
                     params == GetPointersForColumns(fieldMap.ColumnKeys, fieldMap) \o args
                     finalWhere ==
                         IF fieldMap.Driver = PostgreSQL /\ ContainsDollar(where)
                         THEN pgRenumberPlaceholders(where, UpdateOffset(fieldMap.UpdateQuery))
                         ELSE where
                 IN IF invalid # NilError THEN [err |-> invalid, log |-> <<>>]
                    ELSE [err |-> o.execErr,
                          log |-> <<ExecutorCall("Exec", fieldMap.UpdateQuery \o finalWhere,
                                                 params)>>]

Delete(query, args, o) ==
    [err |-> o.execErr, log |-> <<ExecutorCall("Exec", query, args)>>]

NilList == [isNil |-> TRUE, rows |-> 0]

\* The rows are read after the query has run and the field map is found;
\* o.rowErr stands for an error of rows.Columns, ValidateColumns, rows.Scan or
\* rows.Err.
Select(t, query, args, o) ==
    LET log == <<ExecutorCall("Query", query, args)>>
        got == GetFieldMap(t)
    IN IF o.execErr # NilError THEN [list |-> NilList, err |-> o.execErr, log |-> log]
       ELSE IF got.err # NilError THEN [list |-> NilList, err |-> got.err, log |-> log]
       ELSE IF o.rowErr # NilError THEN [list |-> NilList, err |-> o.rowErr, log |-> log]
       ELSE [list |-> [isNil |-> FALSE, rows |-> o.rows], err |-> NilError, log |-> log]

NilModel == [isNil |-> TRUE, row |-> 0]

SelectSingle(t, query, args, o) ==
    LET l == Select(t, query, args, o)
    IN IF l.err # NilError THEN [single |-> NilModel, err |-> l.err, log |-> l.log]
       ELSE IF l.list.rows > 0
       THEN [single |-> [isNil |-> FALSE, row |-> 1], err |-> NilError, log |-> l.log]
       ELSE [single |-> NilModel, err |-> NilError, log |-> l.log]

ParseNamedQueryForModel(t, query, params) ==
    LET got == GetFieldMap(t)
    IN IF got.err # NilError THEN [query |-> <<>>, args |-> <<>>, err |-> got.err]
       ELSE ParseNamedQuery(got.val.Driver, query, params)

SelectNamedIgnoringError(t, query, params, o) ==
    LET parsed == ParseNamedQueryForModel(t, query, params)
    IN Select(t, parsed.query, parsed.args, o)

SelectNamed(t, query, params, o) ==
    LET parsed == ParseNamedQueryForModel(t, query, params)
    IN IF parsed.err # NilError THEN [list |-> NilList, err |-> parsed.err, log |-> <<>>]
       ELSE Select(t, parsed.query, parsed.args, o)

SelectSingleNamed(t, query, params, o) ==
    LET parsed == ParseNamedQueryForModel(t, query, params)
    IN IF parsed.err # NilError THEN [single |-> NilModel, err |-> parsed.err, log |-> <<>>]
       ELSE SelectSingle(t, parsed.query, parsed.args, o)

UpdateNamed(t, where, params, o) ==
    LET got == GetFieldMap(t)
    IN IF got.err # NilError THEN [err |-> got.err, log |-> <<>>]
       ELSE LET parsed == ParseNamedQuery(got.val.Driver, where, params)
            IN IF parsed.err # NilError THEN [err |-> parsed.err, log |-> <<>>]
               ELSE Update(t, parsed.query, parsed.args, o)

DeleteNamed(driver, query, params, o) ==
    LET parsed == ParseNamedQuery(driver, query, params)
    IN IF parsed.err # NilError THEN [err |-> parsed.err, log |-> <<>>]
       ELSE Delete(parsed.query, parsed.args, o)

\* JoinStringForIn[T]: the list of the model's driver, and the PostgreSQL list
\* when GetFieldMap fails.  The function has no error result.
JoinStringForInOfModel(t, offset, params) ==
    LET got == GetFieldMap(t)
    IN IF got.err # NilError THEN pgJoinStringForIn(offset, Len(params))
       ELSE DriverJoinStringForIn(got.val.Driver, offset, Len(params))

NilDereferenceMsg ==
    << "i", "n", "v", "a", "l", "i", "d", " ", "m", "e", "m", "o", "r", "y",
       " ", "a", "d", "d", "r", "e", "s", "s", " ", "o", "r", " ", "n", "i",
       "l", " ", "p", "o", "i", "n", "t", "e", "r", " ", "d", "e", "r", "e",
       "f", "e", "r", "e", "n", "c", "e" >>

\* driver.JoinStringForIn(offset, count): a method call on a nil interface
\* value panics.
JoinStringForInWithDriver(driver, offset, count) ==
    IF driver = NilDriver
    THEN [text |-> <<>>, panic |-> ErrorOf(NilDereferenceMsg)]
    ELSE [text |-> DriverJoinStringForIn(driver, offset, count), panic |-> NilError]

(***************************************************************************)
(* Inputs of the lit layer.                                                *)
(***************************************************************************)
\* struct T   { Id int; A string }            table ts,  columns id, a
\* struct A   { Id string; At string; IsA string }
\*                                            table as,  columns id, at, is_a
\* struct Ta  { A string `lit:"a$"` }         table tas, column a$
ModelT ==
    [name |-> <<"T">>,
     fields |-> << [name |-> <<"I", "d">>, tag |-> <<>>, isInt |-> TRUE],
                   [name |-> <<"A">>, tag |-> <<>>, isInt |-> FALSE] >>]

ModelA ==
    [name |-> <<"A">>,
     fields |-> << [name |-> <<"I", "d">>, tag |-> <<>>, isInt |-> FALSE],
                   [name |-> <<"A", "t">>, tag |-> <<>>, isInt |-> FALSE],
                   [name |-> <<"I", "s", "A">>, tag |-> <<>>, isInt |-> FALSE] >>]

ModelTa ==
    [name |-> <<"T", "a">>,
     fields |-> << [name |-> <<"A">>, tag |-> <<"a", "$">>, isInt |-> FALSE] >>]

ModelTypes == {ModelT, ModelA, ModelTa}

\* The drivers a model is registered with; the MySQL generator is not part
\* of the sources modelled here.
RegistryDrivers == {PostgreSQL, SQLite, CustomDriver}

\* RegisterModel[T]() with no driver argument.
NoDriverArgument == "none"

\* WHERE fragments of Update: none, no placeholder, $1, $1 and $2.
UpdateWheres ==
    { <<>>,
      <<"x">>,
      <<"x", "=", "$", "1">>,
      <<"$", "1", "<", "x">>,
      <<"x", "=", "$", "1", " ", "y", "=", "$", "2">> }

UpdateArgs == { <<>>, <<"x1">>, <<"x1", "x2">> }

\* Named queries and fragments: none, no token, one token, two tokens, a
\* token inside a literal.
NamedQueries ==
    { <<>>,
      <<"x">>,
      <<"x", "=", ":", "a">>,
      <<":", "a", " ", ":", "_">>,
      <<"'", ":", "_", "'">> }

ExecOutcomes ==
    [execErr : {NilError, ExecFailed}, rowErr : {NilError}, id : {0}, rows : {0}]

InsertOutcomes ==
    [execErr : {NilError, ExecFailed}, rowErr : {NilError, RowFailed}, id : {1, 2},
     rows : {0}]

SelectOutcomes ==
    [execErr : {NilError, ExecFailed}, rowErr : {NilError, RowFailed}, id : {0},
     rows : {0, 1}]

\* params []string of JoinStringForIn[T]: only the length is read.
StringLists == UNION {[1..n -> {"p"}] : n \in 0..MaxCount}

(***************************************************************************)
(* The program of the lit layer: registration and operations, one call at  *)
(* a time.                                                                 *)
(***************************************************************************)
CallRegisterDriver ==
    /\ pc = "idle"
    /\ \E driver \in RegistryDrivers \cup {NilDriver} :
         /\ call' = [op |-> "RegisterDriver", driver |-> driver]
         /\ defaultDriver' = driver
    /\ ret' = [panic |-> NilError]
    /\ pc' = "returned"
    /\ UNCHANGED <<StructToFieldMap, executor>>
    /\ UNCHANGED concVars

\* RegisterModel and RegisterModelWithNaming: the driver given or else the
\* default one; a panic when there is none, and a panic at the first method
\* call on the driver when the one given is the nil interface value.
CallRegisterModel ==
    /\ pc = "idle"
    /\ \E t \in ModelTypes, driver \in RegistryDrivers \cup {NilDriver, NoDriverArgument} :
         LET d == IF driver # NoDriverArgument THEN driver ELSE defaultDriver
         IN /\ call' = [op |-> "RegisterModel", type |-> t, driver |-> driver]
            /\ IF driver = NoDriverArgument /\ defaultDriver = NilDriver
               THEN /\ ret' = [panic |-> ErrorOf(NoDefaultDriverMsg)]
                    /\ UNCHANGED StructToFieldMap
               ELSE IF d = NilDriver
               THEN /\ ret' = [panic |-> ErrorOf(NilDereferenceMsg)]
                    /\ UNCHANGED StructToFieldMap
               ELSE /\ ret' = [panic |-> NilError]
                    /\ StructToFieldMap' = (t :> RegisterModelWithNaming(t, d)) @@ StructToFieldMap
    /\ pc' = "returned"
    /\ UNCHANGED <<defaultDriver, executor>>
    /\ UNCHANGED concVars

CallGetFieldMap ==
    /\ pc = "idle"
    /\ \E t \in ModelTypes :
         /\ call' = [op |-> "GetFieldMap", type |-> t]
         /\ ret' = GetFieldMap(t)
    /\ pc' = "returned"
    /\ UNCHANGED litVars
    /\ UNCHANGED concVars

CallInsert ==
    /\ pc = "idle"
    /\ \E t \in ModelTypes, o \in InsertOutcomes :
         LET r == Insert(t, o)
         IN /\ call' = [op |-> "Insert", type |-> t, outcome |-> o]
            /\ ret' = [id |-> r.id, err |-> r.err]
            /\ executor' = r.log
    /\ pc' = "returned"
    /\ UNCHANGED <<StructToFieldMap, defaultDriver>>
    /\ UNCHANGED concVars

CallUpdate ==
    /\ pc = "idle"
    /\ \E t \in ModelTypes, where \in UpdateWheres, args \in UpdateArgs, o \in ExecOutcomes :
         LET r == Update(t, where, args, o)
         IN /\ call' = [op |-> "Update", type |-> t, where |-> where, args |-> args,
                        outcome |-> o]
            /\ ret' = [err |-> r.err]
            /\ executor' = r.log
    /\ pc' = "returned"
    /\ UNCHANGED <<StructToFieldMap, defaultDriver>>
    /\ UNCHANGED concVars

CallParseNamedQueryForModel ==
    /\ pc = "idle"
    /\ \E t \in ModelTypes, query \in NamedQueries, params \in ParamMaps :
         /\ call' = [op |-> "ParseNamedQueryForModel", type |-> t, query |-> query,
                     params |-> params]
         /\ ret' = ParseNamedQueryForModel(t, query, params)
    /\ pc' = "returned"
    /\ UNCHANGED litVars
    /\ UNCHANGED concVars

CallSelectNamed ==
    /\ pc = "idle"
    /\ \E t \in ModelTypes, query \in NamedQueries, params \in ParamMaps,
          o \in SelectOutcomes :
         LET r == SelectNamed(t, query, params, o)
         IN /\ call' = [op |-> "SelectNamed", type |-> t, query |-> query,
                        params |-> params, outcome |-> o]
            /\ ret' = [list |-> r.list, err |-> r.err]
            /\ executor' = r.log
    /\ pc' = "returned"
    /\ UNCHANGED <<StructToFieldMap, defaultDriver>>
    /\ UNCHANGED concVars

CallSelectSingleNamed ==
    /\ pc = "idle"
    /\ \E t \in ModelTypes, query \in NamedQueries, params \in ParamMaps,
          o \in SelectOutcomes :
         LET r == SelectSingleNamed(t, query, params, o)
         IN /\ call' = [op |-> "SelectSingleNamed", type |-> t, query |-> query,
                        params |-> params, outcome |-> o]
            /\ ret' = [single |-> r.single, err |-> r.err]
            /\ executor' = r.log
    /\ pc' = "returned"
    /\ UNCHANGED <<StructToFieldMap, defaultDriver>>
    /\ UNCHANGED concVars

CallUpdateNamed ==
    /\ pc = "idle"
    /\ \E t \in ModelTypes, where \in NamedQueries, params \in ParamMaps,
          o \in ExecOutcomes :
         LET r == UpdateNamed(t, where, params, o)
         IN /\ call' = [op |-> "UpdateNamed", type |-> t, query |-> where,
                        params |-> params, outcome |-> o]
            /\ ret' = [err |-> r.err]
            /\ executor' = r.log
    /\ pc' = "returned"
    /\ UNCHANGED <<StructToFieldMap, defaultDriver>>
    /\ UNCHANGED concVars

CallDeleteNamed ==
    /\ pc = "idle"
    /\ \E driver \in {PostgreSQL, SQLite, NilDriver}, query \in NamedQueries,
          params \in ParamMaps, o \in ExecOutcomes :
         LET r == DeleteNamed(driver, query, params, o)
         IN /\ call' = [op |-> "DeleteNamed", driver |-> driver, query |-> query,
                        params |-> params, outcome |-> o]
            /\ ret' = [err |-> r.err]
            /\ executor' = r.log
    /\ pc' = "returned"
    /\ UNCHANGED <<StructToFieldMap, defaultDriver>>
    /\ UNCHANGED concVars

CallJoinStringForInOfModel ==
    /\ pc = "idle"
    /\ \E t \in ModelTypes, offset \in 0..MaxCount, params \in StringLists :
         /\ call' = [op |-> "JoinStringForIn[T]", type |-> t, offset |-> offset,
                     params |-> params]
         /\ ret' = [text |-> JoinStringForInOfModel(t, offset, params), err |-> NilError,
                    panic |-> NilError]
    /\ pc' = "returned"
    /\ UNCHANGED litVars
    /\ UNCHANGED concVars

CallJoinStringForInWithDriver ==
    /\ pc = "idle"
    /\ \E driver \in {PostgreSQL, SQLite, NilDriver}, offset \in 0..MaxCount,
          count \in 0..MaxCount :
         LET r == JoinStringForInWithDriver(driver, offset, count)
         IN /\ call' = [op |-> "JoinStringForInWithDriver", driver |-> driver,
                        offset |-> offset, count |-> count]
            /\ ret' = [text |-> r.text, err |-> NilError, panic |-> r.panic]
    /\ pc' = "returned"
    /\ UNCHANGED litVars
    /\ UNCHANGED concVars

NextLit ==
    \/ CallRegisterDriver
    \/ CallRegisterModel
    \/ CallGetFieldMap
    \/ CallInsert
    \/ CallUpdate
    \/ CallParseNamedQueryForModel
    \/ CallSelectNamed
    \/ CallSelectSingleNamed
    \/ CallUpdateNamed
    \/ CallDeleteNamed
    \/ CallJoinStringForInOfModel
    \/ CallJoinStringForInWithDriver
    \/ Return

SpecLit == Init /\ [][NextLit]_vars

(***************************************************************************)
(* Claims about the lit layer.                                             *)
(***************************************************************************)
\* The Driver values that carry a dialect: those of the package and the one
\* of the application.
KnownDrivers == {PostgreSQL, SQLite, MySQL, CustomDriver}

\* The driver a RegisterModel call resolves to.
RegistrationDriver ==
    IF call.driver = NoDriverArgument THEN defaultDriver ELSE call.driver

Registered(t) == t \in DOMAIN StructToFieldMap

(***************************************************************************)
(* C12.  A function that needs dialect-specific behaviour and is given no  *)
(* known dialect reports it and gives no result of some dialect:           *)
(* ParseNamedQuery (here behind DeleteNamed) with a nil driver returns an  *)
(* error, registration with no driver or a nil one stops with a panic      *)
(* and stores nothing, JoinStringForInWithDriver with a nil driver stops   *)
(* with a panic, and JoinStringForIn[T] for a type with no registered      *)
(* dialect reports an error rather than the list of some dialect.          *)
(***************************************************************************)
C12_UnknownDialectReported ==
    pc = "returned" =>
        /\ (call.op = "DeleteNamed" /\ call.driver = NilDriver) =>
              (ret.err # NilError /\ executor = <<>>)
        /\ (call.op = "RegisterModel" /\ RegistrationDriver \notin KnownDrivers) =>
              ret.panic # NilError
        /\ (call.op = "JoinStringForInWithDriver" /\ call.driver = NilDriver) =>
              (ret.panic # NilError /\ ret.text = <<>>)
        /\ (call.op = "JoinStringForIn[T]" /\ ~Registered(call.type)) =>
              (ret.err # NilError \/ ret.panic # NilError)

\* The placeholders of a WHERE fragment: each '$' with the digits after it,
\* a '$' that no digit follows not being one.
WherePlaceholders(where) ==
    SelectSeq(EmittedPlaceholders(PostgreSQL, where), LAMBDA ph : Len(ph) > 1)

\* The placeholders are $1, $2, ..., $k from left to right, each once.
PlaceholdersInOrderOnce(where) ==
    LET phs == WherePlaceholders(where)
    IN \A i \in 1..Len(phs) : phs[i] = <<"$">> \o Numeral(i)

\* '<escaped column> = $i' for the columns from the i-th on, comma-separated.
RECURSIVE ExpectedSetList(_, _)
ExpectedSetList(keys, i) ==
    IF i > Len(keys) THEN <<>>
    ELSE pgEscapeReserved(keys[i]) \o <<" ", "=", " ", "$">> \o Numeral(i)
         \o (IF i < Len(keys) THEN <<",">> ELSE <<>>)
         \o ExpectedSetList(keys, i + 1)

UpdateOnPostgreSQL ==
    /\ pc = "returned" /\ call.op = "Update"
    /\ Registered(call.type)
    /\ StructToFieldMap[call.type].Driver = PostgreSQL
    /\ call.where # <<>>
    /\ PlaceholdersInOrderOnce(call.where)

(***************************************************************************)
(* C13.  Update on a model registered with PostgreSQL that has n columns,  *)
(* whatever the table and column names, with a WHERE fragment whose        *)
(* placeholders are $1..$k, executes exactly one statement: its SET list   *)
(* uses $1..$n, its WHERE part is the fragment with $i turned into         *)
(* $(n+i), and it is bound to the n column values in column order followed *)
(* by the caller's arguments in their order.                               *)
(***************************************************************************)
C13_UpdateOffsetIsColumnCount ==
    UpdateOnPostgreSQL =>
        LET keys == ColumnKeysOf(call.type)
            n == Len(keys)
        IN /\ Len(executor) = 1
           /\ executor[1].method = "Exec"
           /\ executor[1].query =
                 <<"U", "P", "D", "A", "T", "E", " ">>
                 \o pgEscapeReserved(GetTableNameFromStructName(call.type.name))
                 \o <<" ", "S", "E", "T", " ">> \o ExpectedSetList(keys, 1)
                 \o <<" ", "W", "H", "E", "R", "E", " ">>
                 \o AddOffset(call.where, n, 1)
           /\ executor[1].args = [i \in 1..n |-> [field |-> i - 1]] \o call.args

NamedCall ==
    /\ pc = "returned"
    /\ call.op \in {"SelectNamed", "SelectSingleNamed", "UpdateNamed", "DeleteNamed"}

\* The driver a named call parses with: the one given to DeleteNamed, the
\* one of the model's registration otherwise, none for an unregistered type.
NamedCallDriver ==
    IF call.op = "DeleteNamed" THEN call.driver
    ELSE IF Registered(call.type) THEN StructToFieldMap[call.type].Driver
    ELSE NilDriver

\* The error for the first token of the text whose name the map lacks.
FirstMissingParameter(driver, text, params) ==
    LET toks == Tokens(driver, text)
    IN ErrorOf(MissingParameterPrefix \o toks[Min(MissingTokens(toks, params))])

ReferencesMissingParameter ==
    MissingTokens(Tokens(NamedCallDriver, call.query), call.params) # {}

NilResult ==
    /\ call.op = "SelectNamed" => ret.list = NilList
    /\ call.op = "SelectSingleNamed" => ret.single = NilModel

(***************************************************************************)
(* C14 as stated.  When the named query or WHERE fragment given to         *)
(* SelectNamed, SelectSingleNamed, UpdateNamed or DeleteNamed references a *)
(* parameter that is missing from the map, the function returns the        *)
(* missing-parameter error, a nil result where it has one, and no call     *)
(* reaches the executor.                                                   *)
(***************************************************************************)
C14_MissingParameterStopsNamedCall ==
    (NamedCall /\ ReferencesMissingParameter) =>
        /\ ret.err = FirstMissingParameter(NamedCallDriver, call.query, call.params)
        /\ NilResult
        /\ executor = <<>>

(***************************************************************************)
(* C14 amended.  For a registered model type (for DeleteNamed: a non-nil   *)
(* driver) the function returns the missing-parameter error of the first   *)
(* missing name, a nil result where it has one, and no call reaches the    *)
(* executor.  For an unregistered type or a nil driver the text is never   *)
(* parsed: the function returns the 'non registered model' or 'driver is   *)
(* nil' error instead, again with a nil result and no call on the          *)
(* executor.                                                               *)
(***************************************************************************)
C14_MissingParameterAfterDriverLookup ==
    (NamedCall /\ ReferencesMissingParameter) =>
        /\ ret.err =
              IF NamedCallDriver # NilDriver
              THEN FirstMissingParameter(NamedCallDriver, call.query, call.params)
              ELSE IF call.op = "DeleteNamed" THEN ErrorOf(DriverIsNilMsg)
              ELSE ErrorOf(NonRegisteredModel(call.type.name))
        /\ NilResult
        /\ executor = <<>>

\* SelectNamed on a model registered with SQLite: ':a :_' with a map that
\* holds a alone, and an executor that would have answered.
C14_Witness ==
    /\ pc = "returned" /\ call.op = "SelectNamed"
    /\ Registered(call.type) /\ StructToFieldMap[call.type].Driver = SQLite
    /\ call.query = <<":", "a", " ", ":", "_">>
    /\ DOMAIN call.params = {<<"a">>}
    /\ call.outcome.execErr = NilError
    /\ ret.err = ErrorOf(MissingParameterPrefix \o <<"_">>)
    /\ executor = <<>>

(***************************************************************************)
(* C15.  Update called with an empty WHERE fragment returns an error, the  *)
(* one that says the parameter 'where' was not present, and executes no    *)
(* statement, whatever the model, its registration and the arguments;      *)
(* UpdateNamed called with an empty fragment returns an error and executes *)
(* no statement either.                                                    *)
(***************************************************************************)
C15_EmptyWhereRejected ==
    pc = "returned" =>
        /\ (call.op = "Update" /\ call.where = <<>>) =>
              (ret.err = ErrorOf(WhereNotPresentMsg) /\ executor = <<>>)
        /\ (call.op = "UpdateNamed" /\ call.query = <<>>) =>
              /\ ret.err # NilError
              /\ Registered(call.type) => ret.err = ErrorOf(WhereNotPresentMsg)
              /\ executor = <<>>

\* Update with an empty fragment on a registered model, with caller
\* arguments and an executor that would have answered.
C15_Witness ==
    /\ pc = "returned" /\ call.op = "Update"
    /\ call.where = <<>> /\ call.args # <<>>
    /\ Registered(call.type)
    /\ call.outcome.execErr = NilError
    /\ ret.err = ErrorOf(WhereNotPresentMsg)
    /\ executor = <<>>

\* sub occurs in text.
Contains(text, sub) ==
    \E p \in 0..(Len(text) - Len(sub)) : SubSeq(text, p + 1, p + Len(sub)) = sub

\* The error of the registry for type t: it holds 'non registered model' and
\* names the type.
IsNonRegisteredError(err, t) ==
    /\ err # NilError
    /\ Contains(err.msg, <<"n", "o", "n", " ", "r", "e", "g", "i", "s", "t", "e", "r", "e", "d",
                           " ", "m", "o", "d", "e", "l">>)
    /\ Contains(err.msg, t.name)

\* What GetFieldMap answers, and what a completed registration leaves.
RegistryLookup ==
    /\ (call.op = "GetFieldMap" /\ ~Registered(call.type)) =>
          (ret.val = NilFieldMap /\ IsNonRegisteredError(ret.err, call.type))
    /\ (call.op = "GetFieldMap" /\ Registered(call.type)) =>
          /\ ret.err = NilError
          /\ ret.val = StructToFieldMap[call.type]
          /\ ret.val.ColumnKeys = ColumnKeysOf(call.type)
    /\ (call.op = "RegisterModel" /\ ret.panic = NilError) =>
          /\ Registered(call.type)
          /\ GetFieldMap(call.type).err = NilError
          /\ GetFieldMap(call.type).val.Driver = RegistrationDriver
          /\ GetFieldMap(call.type).val.ColumnKeys = ColumnKeysOf(call.type)

(***************************************************************************)
(* C16 as stated.  GetFieldMap(T) returns a nil field map and an error     *)
(* containing 'non registered model' when T is not in the registry, and    *)
(* T's field map with no error once a registration of T has completed;     *)
(* ParseNamedQueryForModel, Insert and Update on an unregistered type      *)
(* return that error without any call on the executor.                     *)
(***************************************************************************)
C16_UnregisteredModelError ==
    pc = "returned" =>
        /\ RegistryLookup
        /\ (call.op \in {"ParseNamedQueryForModel", "Insert", "Update"}
              /\ ~Registered(call.type)) =>
              (IsNonRegisteredError(ret.err, call.type) /\ executor = <<>>)

(***************************************************************************)
(* C16 amended.  The same for GetFieldMap, ParseNamedQueryForModel and     *)
(* Insert; Update on an unregistered type returns that error when its      *)
(* WHERE fragment is not empty, and the error of the empty fragment when   *)
(* it is, in both cases without any call on the executor.                  *)
(***************************************************************************)
C16_UnregisteredModelErrorAfterWhereCheck ==
    pc = "returned" =>
        /\ RegistryLookup
        /\ (call.op \in {"ParseNamedQueryForModel", "Insert"} /\ ~Registered(call.type)) =>
              (IsNonRegisteredError(ret.err, call.type) /\ executor = <<>>)
        /\ (call.op = "Update" /\ ~Registered(call.type)) =>
              /\ call.where # <<>> => IsNonRegisteredError(ret.err, call.type)
              /\ call.where = <<>> => ret.err = ErrorOf(WhereNotPresentMsg)
              /\ executor = <<>>

\* Insert on a type that is not registered while another type is, with an
\* executor that would have answered.
C16_Witness ==
    /\ pc = "returned" /\ call.op = "Insert"
    /\ ~Registered(call.type)
    /\ StructToFieldMap # NoModels
    /\ call.outcome.execErr = NilError /\ call.outcome.rowErr = NilError
    /\ ret.id = 0
    /\ IsNonRegisteredError(ret.err, call.type)
    /\ executor = <<>>

\* The 0-based position of a column among the column keys of the model.
FieldOfColumn(keys, column) == (CHOOSE i \in 1..Len(keys) : keys[i] = column) - 1

\* The calls of the log that went to the executor itself.
StatementsSent ==
    SelectSeq(executor, LAMBDA c : c.method \in {"Exec", "Query", "QueryRow"})

InsertOnRegistered == pc = "returned" /\ call.op = "Insert" /\ Registered(call.type)

(***************************************************************************)
(* C17.  Insert on a registered model sends one statement: the INSERT text *)
(* generated at registration, bound to the fields of the model's           *)
(* InsertColumns in that order.  Under PostgreSQL the calls are QueryRow   *)
(* and then Scan, under SQLite Exec and then LastInsertId, which is not    *)
(* called when Exec fails.  Insert returns the id so obtained and no       *)
(* error, or 0 and the error of the step that failed.                      *)
(***************************************************************************)
C17_InsertThroughIdRetrieval ==
    InsertOnRegistered =>
        LET fieldMap == StructToFieldMap[call.type]
            keys == ColumnKeysOf(call.type)
            generated == GenerateInsertQuery(fieldMap.Driver,
                                             GetTableNameFromStructName(call.type.name),
                                             keys, HasIntIdOf(call.type))
            o == call.outcome
            methods == [i \in 1..Len(executor) |-> executor[i].method]
        IN /\ Len(StatementsSent) = 1
           /\ executor[1].query = generated.query
           /\ executor[1].args =
                 [i \in 1..Len(generated.columns) |->
                     [field |-> FieldOfColumn(keys, generated.columns[i])]]
           /\ fieldMap.Driver = PostgreSQL =>
                 /\ methods = <<"QueryRow", "Scan">>
                 /\ o.rowErr = NilError => (ret.id = o.id /\ ret.err = NilError)
                 /\ o.rowErr # NilError => (ret.id = 0 /\ ret.err = o.rowErr)
           /\ fieldMap.Driver = SQLite =>
                 /\ o.execErr # NilError =>
                       (methods = <<"Exec">> /\ ret.id = 0 /\ ret.err = o.execErr)
                 /\ o.execErr = NilError =>
                       /\ methods = <<"Exec", "LastInsertId">>
                       /\ o.rowErr = NilError => (ret.id = o.id /\ ret.err = NilError)
                       /\ o.rowErr # NilError => (ret.id = 0 /\ ret.err = o.rowErr)

\* A model with an int id under PostgreSQL: the id column is not bound, the
\* other field is, and the id the row gives comes back.
C17_Witness ==
    /\ InsertOnRegistered
    /\ call.type = ModelT
    /\ StructToFieldMap[ModelT].Driver = PostgreSQL
    /\ call.outcome.rowErr = NilError /\ call.outcome.id = 2
    /\ executor[1].args = <<[field |-> 1]>>
    /\ executor[2].method = "Scan"
    /\ ret = [id |-> 2, err |-> NilError]

(***************************************************************************)
(* Concurrent calls.  Each goroutine runs one call at a time, one loop     *)
(* iteration per step.  A frame holds the arguments passed by value and    *)
(* the locals of the call (the strings.Builder, the index, the args and    *)
(* insertColumns slices made inside the call); the parameter map and the   *)
(* column list are the caller's and are reached through the heap, where    *)
(* every goroutine sees the same ones.  The keyword tables are package     *)
(* variables that no function writes.                                      *)
(***************************************************************************)
NoResult == [op |-> "none"]

Finished(f, result) == [f EXCEPT !.stage = "done", !.result = result]

\* One iteration of the loop of ParseNamedQuery, over the locals i, out, args
\* and argIndex of the frame.
ScanStep(driver, runes, params, f) ==
    IF ~(f.i < Len(runes))
    THEN Finished(f, [query |-> f.out, args |-> f.args, err |-> NilError])
    ELSE LET r == At(runes, f.i) IN
      IF r = "'"
      THEN LET q == SingleQuoted(driver, runes, f.i, f.out)
           IN [f EXCEPT !.i = q.i + 1, !.out = q.out]
      ELSE IF r = "\""
      THEN LET q == DoubleQuoted(driver, runes, f.i, f.out)
           IN [f EXCEPT !.i = q.i + 1, !.out = q.out]
      ELSE IF r = Backtick
      THEN LET q == BacktickQuoted(driver, runes, f.i, f.out)
           IN [f EXCEPT !.i = q.i + 1, !.out = q.out]
      ELSE IF r = ":"
      THEN IF IsDoubleColon(runes, f.i)
           THEN [f EXCEPT !.i = f.i + 2, !.out = f.out \o <<":", ":">>]
           ELSE IF IsParamToken(runes, f.i)
           THEN LET j == ParamEnd(runes, f.i + 1)
                    name == ParamName(runes, f.i, j)
                IN IF name \notin DOMAIN params
                   THEN Finished(f, MissingParameter(name))
                   ELSE [f EXCEPT !.i = j,
                                  !.out = f.out \o Placeholder(driver, f.argIndex + 1),
                                  !.args = Append(f.args, params[name]),
                                  !.argIndex = f.argIndex + 1]
           ELSE [f EXCEPT !.i = f.i + 1, !.out = Append(f.out, ":")]
      ELSE [f EXCEPT !.i = f.i + 1, !.out = Append(f.out, r)]

\* A step that takes the name it has looked up out of the caller's map.
ParseStepConsumingParams(f, h) ==
    LET next == ScanStep(f.driver, f.query, h.params, f)
    IN [frame |-> next,
        heap |-> IF Len(next.args) > Len(f.args)
                 THEN [h EXCEPT !.params =
                          [n \in DOMAIN h.params \ {ParamName(f.query, f.i, next.i)} |->
                              h.params[n]]]
                 ELSE h]

\* ParseNamedQuery reads the caller's map at a lookup and writes nothing
\* outside its locals.
ParseStep(f, h) == [frame |-> ScanStep(f.driver, f.query, h.params, f), heap |-> h]

\* pgRenumberPlaceholders: the test for '$', then one character per step.
RenumberStep(f, h) ==
    [heap |-> h,
     frame |->
       IF f.phase = "check"
       THEN IF ~ContainsDollar(f.where) THEN Finished(f, f.where)
            ELSE [f EXCEPT !.phase = "loop"]
       ELSE IF ~(f.i < Len(f.where))
       THEN Finished(f, IF f.parsingIdentifier THEN f.newWhere \o Itoa(f.offset + 1)
                        ELSE f.newWhere)
       ELSE LET c == At(f.where, f.i)
            IN IF c = "$"
               THEN [f EXCEPT !.i = f.i + 1, !.parsingIdentifier = TRUE,
                              !.newWhere = Append(f.newWhere, c)]
               ELSE IF f.parsingIdentifier
               THEN IF c \in Digits
                    THEN [f EXCEPT !.i = f.i + 1]
                    ELSE [f EXCEPT !.i = f.i + 1, !.parsingIdentifier = FALSE,
                                   !.offset = f.offset + 1,
                                   !.newWhere = f.newWhere \o Itoa(f.offset + 1) \o <<c>>]
               ELSE [f EXCEPT !.i = f.i + 1, !.newWhere = Append(f.newWhere, c)]]

\* The drivers' JoinStringForIn: one placeholder per step.
JoinStep(f, h) ==
    [heap |-> h,
     frame |->
       IF ~(f.i < f.count) THEN Finished(f, f.sb)
       ELSE [f EXCEPT !.i = f.i + 1,
                      !.sb = f.sb
                             \o (IF f.driver = PostgreSQL THEN pgJoinItem(f.offset, f.i)
                                 ELSE <<"?">>)
                             \o CommaBeforeLast(f.i, f.count)]]

\* The escape functions: one step.
EscapeStep(f, h) == [heap |-> h, frame |-> Finished(f, EscapeReserved(f.driver, f.name))]

\* GenerateUpdateQuery: the head, one column of the caller's list per step,
\* the tail.
UpdateQueryStep(f, h) ==
    [heap |-> h,
     frame |->
       IF f.phase = "head"
       THEN [f EXCEPT !.phase = "set",
                      !.sb = <<"U", "P", "D", "A", "T", "E", " ">>
                             \o EscapeReserved(f.driver, f.tableName)
                             \o <<" ", "S", "E", "T", " ">>]
       ELSE IF ~(f.i < Len(h.columns))
       THEN Finished(f, [query |-> f.sb \o <<" ", "W", "H", "E", "R", "E", " ">>])
       ELSE LET k == At(h.columns, f.i)
            IN [f EXCEPT !.i = f.i + 1,
                         !.sb = f.sb
                                \o (IF f.driver = PostgreSQL THEN pgUpdateAssignment(k, f.i)
                                    ELSE sqliteUpdateAssignment(k, f.i))
                                \o CommaUnlessLast(f.i, Len(h.columns))]]

\* GenerateInsertQuery: the head, the loop of the column names, the loop of
\* the VALUES list with its counter and its own insertColumns slice, the
\* tail.
InsertQueryStep(f, h) ==
    [heap |-> h,
     frame |->
       IF f.phase = "head"
       THEN [f EXCEPT !.phase = "names",
                      !.sb = <<"I", "N", "S", "E", "R", "T", " ", "I", "N", "T", "O", " ">>
                             \o EscapeReserved(f.driver, f.tableName) \o <<" ", "(">>]
       ELSE IF f.phase = "names"
       THEN IF ~(f.i < Len(h.columns))
            THEN [f EXCEPT !.phase = "values", !.i = 0,
                           !.sb = f.sb \o <<")", " ", "V", "A", "L", "U", "E", "S", " ", "(">>]
            ELSE [f EXCEPT !.i = f.i + 1,
                           !.sb = f.sb \o EscapeReserved(f.driver, At(h.columns, f.i))
                                  \o CommaUnlessLast(f.i, Len(h.columns))]
       ELSE IF ~(f.i < Len(h.columns))
       THEN Finished(f, [query |-> f.sb
                                   \o (IF f.driver = PostgreSQL
                                       THEN <<")", " ", "R", "E", "T", "U", "R", "N", "I", "N",
                                              "G", " ", "i", "d">>
                                       ELSE <<")">>),
                         columns |-> f.insertColumns])
       ELSE LET k == At(h.columns, f.i)
                comma == CommaUnlessLast(f.i, Len(h.columns))
            IN IF f.hasIntId /\ k = IdColumn
               THEN [f EXCEPT !.i = f.i + 1,
                              !.sb = f.sb
                                     \o (IF f.driver = PostgreSQL
                                         THEN <<"D", "E", "F", "A", "U", "L", "T">>
                                         ELSE <<"N", "U", "L", "L">>)
                                     \o comma]
               ELSE [f EXCEPT !.i = f.i + 1,
                              !.counter = f.counter + 1,
                              !.insertColumns = Append(f.insertColumns, k),
                              !.sb = f.sb
                                     \o (IF f.driver = PostgreSQL
                                         THEN pgInsertPlaceholder(f.i, f.counter)
                                         ELSE <<"?">>)
                                     \o comma]]

StepOf(f, h) ==
    CASE f.op = "ParseNamedQuery" -> ParseStep(f, h)
      [] f.op = "pgRenumberPlaceholders" -> RenumberStep(f, h)
      [] f.op = "JoinStringForIn" -> JoinStep(f, h)
      [] f.op = "EscapeReserved" -> EscapeStep(f, h)
      [] f.op = "GenerateUpdateQuery" -> UpdateQueryStep(f, h)
      [] f.op = "GenerateInsertQuery" -> InsertQueryStep(f, h)

(***************************************************************************)
(* Inputs of the concurrent calls.                                         *)
(***************************************************************************)
ConcurrentQueries ==
    { <<":", "a">>,
      <<"'", ":", "a", "'", ":", "_">>,
      <<":", "a", ":", ":", "a", ":", "a">> }

ConcurrentWheres == { <<"x">>, <<"$", "1">>, <<"$", "1", "x", "$", "2">> }

ConcurrentNames == { <<"a", "s">>, <<"t">> }

ConcurrentColumnLists == { <<IdColumn, <<"a", "s">>>>, <<<<"a">>>> }

Heaps == [params : ParamMaps, columns : ConcurrentColumnLists]

\* What every frame starts with: the call, the caller's data as it is when
\* the call is made, no result yet.
NewFrame(op, h) ==
    [op |-> op, stage |-> "running", result |-> NoResult, atCall |-> h]

InitConcurrent ==
    /\ pc = "idle"
    /\ call = NoCall
    /\ ret = NoCall
    /\ StructToFieldMap = NoModels
    /\ defaultDriver = NilDriver
    /\ executor = <<>>
    /\ goroutines = NoGoroutines
    /\ heap \in Heaps

Idle(g) == goroutines[g].stage = "idle"

GoParseNamedQuery(g) ==
    /\ Idle(g)
    /\ \E driver \in Drivers, query \in ConcurrentQueries :
         goroutines' =
           [goroutines EXCEPT ![g] =
              NewFrame("ParseNamedQuery", heap)
              @@ [driver |-> driver, query |-> query, i |-> 0, out |-> <<>>,
                  args |-> <<>>, argIndex |-> 0]]
    /\ UNCHANGED <<pc, call, ret, litVars, heap>>

GoRenumberPlaceholders(g) ==
    /\ Idle(g)
    /\ \E where \in ConcurrentWheres, offset \in {0, MaxOffset} :
         goroutines' =
           [goroutines EXCEPT ![g] =
              NewFrame("pgRenumberPlaceholders", heap)
              @@ [where |-> where, offset |-> offset, offsetAtCall |-> offset,
                  phase |-> "check", i |-> 0, parsingIdentifier |-> FALSE,
                  newWhere |-> <<>>]]
    /\ UNCHANGED <<pc, call, ret, litVars, heap>>

GoJoinStringForIn(g) ==
    /\ Idle(g)
    /\ \E driver \in GeneratorDrivers, offset \in {0, MaxOffset}, count \in 0..MaxCount :
         goroutines' =
           [goroutines EXCEPT ![g] =
              NewFrame("JoinStringForIn", heap)
              @@ [driver |-> driver, offset |-> offset, count |-> count, i |-> 0,
                  sb |-> <<>>]]
    /\ UNCHANGED <<pc, call, ret, litVars, heap>>

GoEscapeReserved(g) ==
    /\ Idle(g)
    /\ \E driver \in GeneratorDrivers, name \in ConcurrentNames :
         goroutines' =
           [goroutines EXCEPT ![g] =
              NewFrame("EscapeReserved", heap) @@ [driver |-> driver, name |-> name]]
    /\ UNCHANGED <<pc, call, ret, litVars, heap>>

GoGenerateUpdateQuery(g) ==
    /\ Idle(g)
    /\ \E driver \in GeneratorDrivers, tableName \in ConcurrentNames :
         goroutines' =
           [goroutines EXCEPT ![g] =
              NewFrame("GenerateUpdateQuery", heap)
              @@ [driver |-> driver, tableName |-> tableName, phase |-> "head",
                  i |-> 0, sb |-> <<>>]]
    /\ UNCHANGED <<pc, call, ret, litVars, heap>>

GoGenerateInsertQuery(g) ==
    /\ Idle(g)
    /\ \E driver \in GeneratorDrivers, tableName \in ConcurrentNames, hasIntId \in BOOLEAN :
         goroutines' =
           [goroutines EXCEPT ![g] =
              NewFrame("GenerateInsertQuery", heap)
              @@ [driver |-> driver, tableName |-> tableName, hasIntId |-> hasIntId,
                  phase |-> "head", i |-> 0, counter |-> 1, insertColumns |-> <<>>,
                  sb |-> <<>>]]
    /\ UNCHANGED <<pc, call, ret, litVars, heap>>

\* One step of the call of g.
GoStep(g) ==
    /\ goroutines[g].stage = "running"
    /\ LET next == StepOf(goroutines[g], heap)
       IN /\ goroutines' = [goroutines EXCEPT ![g] = next.frame]
          /\ heap' = next.heap
    /\ UNCHANGED <<pc, call, ret, litVars>>

GoReturn(g) ==
    /\ goroutines[g].stage = "done"
    /\ goroutines' = [goroutines EXCEPT ![g] = IdleFrame]
    /\ UNCHANGED <<pc, call, ret, litVars, heap>>

NextConcurrent ==
    \E g \in Goroutines :
        \/ GoParseNamedQuery(g)
        \/ GoRenumberPlaceholders(g)
        \/ GoJoinStringForIn(g)
        \/ GoEscapeReserved(g)
        \/ GoGenerateUpdateQuery(g)
        \/ GoGenerateInsertQuery(g)
        \/ GoStep(g)
        \/ GoReturn(g)

SpecConcurrent == InitConcurrent /\ [][NextConcurrent]_vars

\* The result of the call of frame f when it runs alone on the caller's data
\* as they were when the call was made.
Alone(f) ==
    CASE f.op = "ParseNamedQuery" -> ParseNamedQuery(f.driver, f.query, f.atCall.params)
      [] f.op = "pgRenumberPlaceholders" -> pgRenumberPlaceholders(f.where, f.offsetAtCall)
      [] f.op = "JoinStringForIn" -> DriverJoinStringForIn(f.driver, f.offset, f.count)
      [] f.op = "EscapeReserved" -> EscapeReserved(f.driver, f.name)
      [] f.op = "GenerateUpdateQuery" ->
            [query |-> GenerateUpdateQuery(f.driver, f.tableName, f.atCall.columns)]
      [] f.op = "GenerateInsertQuery" ->
            GenerateInsertQuery(f.driver, f.tableName, f.atCall.columns, f.hasIntId)

(***************************************************************************)
(* C18.  Under any interleaving of the steps of two concurrent calls of    *)
(* ParseNamedQuery with an explicit driver, GenerateInsertQuery,           *)
(* GenerateUpdateQuery, the escape functions, pgRenumberPlaceholders and   *)
(* the drivers' JoinStringForIn, a call that has finished has the result   *)
(* it has when it runs alone, and the caller's parameter map and column    *)
(* list are at every moment of a call what they were when it was made.     *)
(***************************************************************************)
C18_ConcurrentCallsIndependent ==
    \A g \in Goroutines :
        LET f == goroutines[g]
        IN /\ f.stage # "idle" => heap = f.atCall
           /\ f.stage = "done" => f.result = Alone(f)

\* Two calls of ParseNamedQuery on the same map, both begun before either
\* has finished, the first of them finished with an argument taken from it.
C18_Witness ==
    /\ goroutines[1].op = "ParseNamedQuery" /\ goroutines[1].stage = "done"
    /\ goroutines[1].result.err = NilError /\ goroutines[1].result.args # <<>>
    /\ goroutines[2].op = "ParseNamedQuery" /\ goroutines[2].stage = "running"
    /\ goroutines[2].i > 0

(***************************************************************************)
(* C19.  When the placeholders of a WHERE fragment are exactly $1, $2,     *)
(* ..., $k from left to right, each once, pgRenumberPlaceholders(where,    *)
(* offset) returns the fragment with $i replaced by $(offset+i) for every  *)
(* i and all other text unchanged, also when $k ends the fragment; a       *)
(* fragment without '$' is returned unchanged.                             *)
(***************************************************************************)
C19_SequentialPlaceholdersRenumbered ==
    (pc = "returned" /\ call.op = "pgRenumberPlaceholders") =>
        /\ PlaceholdersInOrderOnce(call.where) =>
              ret.text = AddOffset(call.where, call.offset, 1)
        /\ ~ContainsDollar(call.where) => ret.text = call.where

\* The first quote character of the text, 0 when it has none: what is
\* before it is outside every literal.
FirstQuote(text) ==
    LET at == {p \in 1..Len(text) : text[p] \in QuoteChars}
    IN IF at = {} THEN 0 ELSE Min(at)

\* The start of the maximal run of d that ends at q, looking no further back
\* than p + 1.
RECURSIVE RunStart(_, _, _, _)
RunStart(text, d, p, q) ==
    IF q - 1 > p /\ text[q - 1] = d THEN RunStart(text, d, p, q - 1) ELSE q

\* Where the literal opened at p by d = text[p] closes: at the last d of the
\* first run of d's of odd length, the pairs before it being doubled
\* delimiters; 0 when every run is of even length and the literal runs to
\* the end of the text.
LiteralClose(text, p) ==
    LET d == text[p]
        ends == {q \in (p + 1)..Len(text) :
                    /\ text[q] = d
                    /\ (q = Len(text) \/ text[q + 1] # d)
                    /\ (q - RunStart(text, d, p, q) + 1) % 2 = 1}
    IN IF ends = {} THEN 0 ELSE Min(ends)

\* A doubled delimiter stands inside the literal that p opens and e closes.
HasDoubledDelimiter(text, p, e) ==
    \E q \in (p + 1)..(e - 2) : text[q] = text[p] /\ text[q + 1] = text[p]

\* The call is on a text with a literal, and no backslash that the dialect
\* would read as an escape stands in or after it.
ParsedWithLiteral ==
    /\ Parsed
    /\ FirstQuote(call.query) > 0
    /\ BackslashDialect(call.driver) =>
          \A q \in FirstQuote(call.query)..Len(call.query) : call.query[q] # "\\"

(***************************************************************************)
(* C20.  Inside a literal opened by a delimiter d (single quote, double    *)
(* quote or backtick) two consecutive d are copied as two characters and   *)
(* the scan stays inside the literal, which closes only at a d that is not *)
(* immediately followed by another d.  For the first literal of a text:    *)
(* the result is that of the text before it, then the literal as it is up  *)
(* to that closing d, then the result of the text after it; no token       *)
(* inside the literal is bound or reported missing.  A literal that never  *)
(* closes is copied to the end of the text.                                *)
(***************************************************************************)
C20_DoubledDelimiterStaysInLiteral ==
    ParsedWithLiteral =>
        LET text == call.query
            p == FirstQuote(text)
            close == LiteralClose(text, p)
            e == IF close = 0 THEN Len(text) ELSE close
            before == ParseNamedQuery(call.driver, SubSeq(text, 1, p - 1), call.params)
            after == ParseNamedQuery(call.driver, SubSeq(text, e + 1, Len(text)), call.params)
        IN IF before.err # NilError THEN ret = before
           ELSE IF after.err # NilError THEN ret = after
           ELSE /\ ret.err = NilError
                /\ StartsWith(ret.query, before.query \o SubSeq(text, p, e))
                /\ Len(ret.query) = Len(before.query) + (e - p + 1) + Len(after.query)
                /\ ret.args = before.args \o after.args

\* 'a''_:a':a under PostgreSQL with a map that holds a alone: the doubled
\* quote does not close the literal, the names _ and a inside it are left
\* alone and the token after it is the first placeholder.
C20_Witness ==
    /\ ParsedWithLiteral
    /\ call.driver = PostgreSQL
    /\ call.query = <<"'", "a", "'", "'", "_", ":", "a", "'", ":", "a">>
    /\ DOMAIN call.params = {<<"a">>}
    /\ HasDoubledDelimiter(call.query, 1, LiteralClose(call.query, 1))
    /\ LiteralClose(call.query, 1) = 8
    /\ ret.query = <<"'", "a", "'", "'", "_", ":", "a", "'", "$", "1">>
    /\ ret.args = <<"va">>

\* Where the literal opened at p closes when a backslash escapes the
\* character after it, reading on from q: 0 when it runs to the end of the
\* text.  A backslash that ends the text has nothing to escape.
RECURSIVE EscapedClose(_, _, _)
EscapedClose(text, p, q) ==
    IF q > Len(text) THEN 0
    ELSE IF text[q] = "\\" /\ q < Len(text) THEN EscapedClose(text, p, q + 2)
    ELSE IF text[q] = text[p] /\ q < Len(text) /\ text[q + 1] = text[p]
    THEN EscapedClose(text, p, q + 2)
    ELSE IF text[q] = text[p] THEN q
    ELSE EscapedClose(text, p, q + 1)

\* The call is on a text whose first literal holds a backslash, the literal
\* being read without escapes.
BackslashInFirstLiteral ==
    /\ Parsed
    /\ FirstQuote(call.query) > 0
    /\ LET p == FirstQuote(call.query)
           close == LiteralClose(call.query, p)
           e == IF close = 0 THEN Len(call.query) + 1 ELSE close
       IN \E q \in (p + 1)..(e - 1) : call.query[q] = "\\"

(***************************************************************************)
(* C21.  A backslash inside a literal escapes the character after it, so   *)
(* that both are copied and that character cannot close the literal,       *)
(* exactly when the driver is the MySQL-style one and the literal is       *)
(* single-quoted or double-quoted.  Under PostgreSQL and SQLite, and in a  *)
(* backtick-quoted identifier under every driver, a backslash is an        *)
(* ordinary character.  For the first literal of a text: the result is     *)
(* that of the text before it, then the literal as it is up to its close   *)
(* under that reading, then the result of the text after it.  'a\' is a    *)
(* complete literal under PostgreSQL and SQLite and the ':a' after it is   *)
(* replaced; under MySQL the literal runs on to the end of the text.       *)
(***************************************************************************)
C21_BackslashEscapesByDialect ==
    BackslashInFirstLiteral =>
        LET text == call.query
            p == FirstQuote(text)
            escapes == call.driver = MySQL /\ text[p] \in {"'", "\""}
            close == IF escapes THEN EscapedClose(text, p, p + 1) ELSE LiteralClose(text, p)
            e == IF close = 0 THEN Len(text) ELSE close
            before == ParseNamedQuery(call.driver, SubSeq(text, 1, p - 1), call.params)
            after == ParseNamedQuery(call.driver, SubSeq(text, e + 1, Len(text)), call.params)
        IN /\ IF before.err # NilError THEN ret = before
              ELSE IF after.err # NilError THEN ret = after
              ELSE /\ ret.err = NilError
                   /\ StartsWith(ret.query, before.query \o SubSeq(text, p, e))
                   /\ Len(ret.query) = Len(before.query) + (e - p + 1) + Len(after.query)
                   /\ ret.args = before.args \o after.args
           /\ text = <<"'", "a", "\\", "'", ":", "a">> =>
                IF call.driver = MySQL
                THEN ret = [query |-> text, args |-> <<>>, err |-> NilError]
                ELSE IF <<"a">> \in DOMAIN call.params
                THEN ret = [query |-> <<"'", "a", "\\", "'">> \o ExpectedPlaceholder(call.driver, 1),
                            args |-> <<call.params[<<"a">>]>>, err |-> NilError]
                ELSE ret = MissingParameter(<<"a">>)

\* 'a\':a under PostgreSQL with a in the map: the quote after the backslash
\* closes the literal and the token after it is bound.
C21_Witness ==
    /\ BackslashInFirstLiteral
    /\ call.driver = PostgreSQL
    /\ call.query = <<"'", "a", "\\", "'", ":", "a">>
    /\ ret.query = <<"'", "a", "\\", "'", "$", "1">>
    /\ ret.args = <<"va">>
    /\ ret.err = NilError

\* The text with every named token outside literals replaced by the
\* placeholder of its slot, the k-th token taking slot k, and every other
\* character kept.
RECURSIVE Rewritten(_, _, _, _, _)
Rewritten(driver, tags, text, p, k) ==
    IF p > Len(text) THEN <<>>
    ELSE IF tags[p] = "colon"
    THEN ExpectedPlaceholder(driver, k)
            \o Rewritten(driver, tags, text, NameRunEnd(tags, p) + 1, k + 1)
    ELSE <<text[p]>> \o Rewritten(driver, tags, text, p + 1, k)

\* The call is on a text with a colon outside literals.
ParsedWithColon ==
    /\ Parsed
    /\ \E p \in 1..Len(call.query) :
          Tags(call.driver, call.query)[p] \in {"colon", "bare", "cast"}

(***************************************************************************)
(* C22.  Outside literals a colon starts a named token exactly when it is  *)
(* not one of the two colons of a '::' and the character after it is a     *)
(* letter or an underscore, and the name looked up is the longest run of   *)
(* letters, digits and underscores after it: ':a1' looks up 'a1', never    *)
(* 'a'.  Every other colon (before a digit, another symbol or the end of   *)
(* the text) is emitted as a colon, with no lookup and no bind slot.  So   *)
(* the call fails exactly when one of these names is not in the map, the   *)
(* error naming the first such name, and otherwise the result is the text  *)
(* with each token replaced by the placeholder of its slot and nothing     *)
(* else changed, the arguments being the map values of the names in order. *)
(***************************************************************************)
C22_ColonStartsToken ==
    ParsedWithColon =>
        LET tags == Tags(call.driver, call.query)
            toks == Tokens(call.driver, call.query)
            missing == MissingTokens(toks, call.params)
        IN /\ \A p \in 1..Len(call.query) :
                tags[p] = "colon" <=>
                    /\ tags[p] \notin {"open", "lit", "close", "cast"}
                    /\ call.query[p] = ":"
                    /\ p < Len(call.query)
                    /\ call.query[p + 1] \in Letters \cup {"_"}
           /\ IF missing # {}
              THEN ret = MissingParameter(toks[Min(missing)])
              ELSE /\ ret.err = NilError
                   /\ ret.query = Rewritten(call.driver, tags, call.query, 1, 1)
                   /\ ret.args = [k \in 1..Len(toks) |-> call.params[toks[k]]]
           /\ (call.query = <<":", "a", "1">> /\ <<"a">> \in DOMAIN call.params) =>
                ret = MissingParameter(<<"a", "1">>)
           /\ (call.query = <<":", "a", "_">> /\ DOMAIN call.params = {<<"a">>, <<"_">>}) =>
                ret = MissingParameter(<<"a", "_">>)

\* ':a:1' under PostgreSQL with a in the map: the first colon starts the
\* token a, the second, before a digit, is emitted as it is.
C22_Witness ==
    /\ ParsedWithColon
    /\ call.driver = PostgreSQL
    /\ call.query = <<":", "a", ":", "1">>
    /\ Tags(call.driver, call.query) = <<"colon", "name", "bare", "plain">>
    /\ ret.query = <<"$", "1", ":", "1">>
    /\ ret.args = <<"va">>
    /\ ret.err = NilError

\* The position of the quote that opens a literal which never closes, 0 when
\* every literal of the text closes.
UnclosedQuote(driver, text) ==
    LET tags == Tags(driver, text)
        at == {p \in 1..Len(text) :
                  /\ tags[p] = "open"
                  /\ \A q \in (p + 1)..Len(text) : tags[q] # "close"}
    IN IF at = {} THEN 0 ELSE Min(at)

ParsedUnterminated == Parsed /\ UnclosedQuote(call.driver, call.query) > 0

(***************************************************************************)
(* C23 as stated.  When a quote opened in the text is never closed, the    *)
(* call returns without error, everything from the opening quote to the    *)
(* end of the text is copied as it is, no ':name' after the quote is       *)
(* replaced or looked up, and the tokens before the quote are replaced and *)
(* bound.                                                                  *)
(***************************************************************************)
C23_UnterminatedLiteralCopied ==
    ParsedUnterminated =>
        LET text == call.query
            p == UnclosedQuote(call.driver, text)
            tags == Tags(call.driver, text)
            toks == Tokens(call.driver, SubSeq(text, 1, p - 1))
        IN /\ ret.err = NilError
           /\ ret.query = Rewritten(call.driver, tags, text, 1, 1)
           /\ EndsWith(ret.query, SubSeq(text, p, Len(text)))
           /\ Len(ret.args) = Len(toks)

(***************************************************************************)
(* C23 amended.  When a quote opened in the text is never closed and every *)
(* token before the quote is in the map, the call returns without error    *)
(* the result of the text before the quote followed by everything from the *)
(* quote to the end of the text as it is, the arguments being those of the *)
(* tokens before the quote: no ':name' after the quote is replaced or      *)
(* looked up.  When a token before the quote is not in the map, the call   *)
(* returns the missing-parameter error of that token.                      *)
(***************************************************************************)
C23_UnterminatedLiteralCopiedWhenBound ==
    ParsedUnterminated =>
        LET text == call.query
            p == UnclosedQuote(call.driver, text)
            before == ParseNamedQuery(call.driver, SubSeq(text, 1, p - 1), call.params)
            toks == Tokens(call.driver, SubSeq(text, 1, p - 1))
            missing == MissingTokens(toks, call.params)
        IN IF missing # {}
           THEN ret = MissingParameter(toks[Min(missing)])
           ELSE /\ before.err = NilError
                /\ ret.err = NilError
                /\ ret.query = before.query \o SubSeq(text, p, Len(text))
                /\ ret.args = [k \in 1..Len(toks) |-> call.params[toks[k]]]

\* ':a' then a single quote that never closes, with ':_' after it, under
\* PostgreSQL with a map that holds a alone: a is bound, _ is not looked up.
C23_Witness ==
    /\ ParsedUnterminated
    /\ call.driver = PostgreSQL
    /\ call.query = <<":", "a", "'", ":", "_">>
    /\ UnclosedQuote(call.driver, call.query) = 3
    /\ DOMAIN call.params = {<<"a">>}
    /\ ret.query = <<"$", "1", "'", ":", "_">>
    /\ ret.args = <<"va">>
    /\ ret.err = NilError

(***************************************************************************)
(* The scan of ParseNamedQuery loop by loop.  A frame of goroutine 1 holds *)
(* the locals i, j, out, args and argIndex and stands at the head of the   *)
(* body of one of the three kinds of loop, its test having passed: the     *)
(* loop over the text ("outer"), the loop of a quoted region ("quoted"),   *)
(* the loop that collects a name ("name").  A step is the body of the loop *)
(* and the tests that follow it, up to the next body or to the return.     *)
(***************************************************************************)
MaxScanLen == 3

ScanQueries == SeqsUpTo(QueryAlphabet, MaxScanLen)

\* for i := 0; i < len(runes); i++, at its test; when the test fails,
\* return out.String(), args, nil
OuterTest(f) ==
    IF f.i < Len(f.query) THEN [f EXCEPT !.loop = "outer"]
    ELSE Finished(f, [query |-> f.out, args |-> f.args, err |-> NilError])

\* for i < len(runes), at its test; when the test fails, the continue of the
\* outer loop and its i++
QuotedTest(f) ==
    IF f.i < Len(f.query) THEN [f EXCEPT !.loop = "quoted"]
    ELSE OuterTest([f EXCEPT !.i = f.i + 1])

\* for j < len(runes) && isParamChar(runes[j]), at its test; when the test
\* fails, the lookup of the name, i = j - 1 and the continue with its i++
NameTest(f, params) ==
    IF f.j < Len(f.query) /\ isParamChar(At(f.query, f.j)) THEN [f EXCEPT !.loop = "name"]
    ELSE LET name == ParamName(f.query, f.i, f.j)
         IN IF name \notin DOMAIN params
            THEN Finished(f, MissingParameter(name))
            ELSE OuterTest([f EXCEPT !.i = f.j,
                                     !.out = f.out \o Placeholder(f.driver, f.argIndex + 1),
                                     !.args = Append(f.args, params[name]),
                                     !.argIndex = f.argIndex + 1])

\* A slip: the bare colon neither written nor passed.
BareColonNotConsumed(f) == [f EXCEPT !.loop = "outer"]

\* out.WriteRune(':'); continue
BareColon(f) == OuterTest([f EXCEPT !.out = Append(f.out, ":"), !.i = f.i + 1])

\* The body of the outer loop up to the first test of an inner loop.
OuterBody(f, params) ==
    LET r == At(f.query, f.i) IN
      IF r \in {"'", "\"", Backtick}
      THEN QuotedTest([f EXCEPT !.out = Append(f.out, r), !.i = f.i + 1, !.quote = r,
                                !.backslash = r # Backtick /\ SupportsBackslashEscape(f.driver)])
      ELSE IF r = ":"
      THEN IF IsDoubleColon(f.query, f.i)
           THEN OuterTest([f EXCEPT !.out = f.out \o <<":", ":">>, !.i = f.i + 2])
           ELSE IF IsParamToken(f.query, f.i)
           THEN NameTest([f EXCEPT !.j = f.i + 1], params)
           ELSE BareColon(f)
      ELSE OuterTest([f EXCEPT !.out = Append(f.out, r), !.i = f.i + 1])

\* The body of the loop of a quoted region.
QuotedBody(f) ==
    LET c == At(f.query, f.i) IN
      IF f.backslash /\ c = "\\" /\ f.i + 1 < Len(f.query)
      THEN QuotedTest([f EXCEPT !.out = f.out \o <<c, At(f.query, f.i + 1)>>, !.i = f.i + 2])
      ELSE IF c = f.quote
      THEN IF f.i + 1 < Len(f.query) /\ At(f.query, f.i + 1) = f.quote
           THEN QuotedTest([f EXCEPT !.out = f.out \o <<c, f.quote>>, !.i = f.i + 2])
           ELSE OuterTest([f EXCEPT !.out = Append(f.out, c), !.i = f.i + 1])
      ELSE QuotedTest([f EXCEPT !.out = Append(f.out, c), !.i = f.i + 1])

\* j++
NameBody(f, params) == NameTest([f EXCEPT !.j = f.j + 1], params)

InitScan ==
    /\ pc = "idle"
    /\ call = NoCall
    /\ ret = NoCall
    /\ StructToFieldMap = NoModels
    /\ defaultDriver = NilDriver
    /\ executor = <<>>
    /\ goroutines = NoGoroutines
    /\ heap \in [params : ParamMaps, columns : {<<>>}]

Scanning(loop) == goroutines[1].stage = "running" /\ goroutines[1].loop = loop

ScanCall ==
    /\ Idle(1)
    /\ \E driver \in Drivers, query \in ScanQueries :
         goroutines' =
           [goroutines EXCEPT ![1] =
              OuterTest(NewFrame("ParseNamedQuery", heap)
                        @@ [driver |-> driver, query |-> query, loop |-> "outer", i |-> 0,
                            j |-> 0, out |-> <<>>, args |-> <<>>, argIndex |-> 0,
                            quote |-> "'", backslash |-> FALSE])]
    /\ UNCHANGED <<pc, call, ret, litVars, heap>>

ScanOuter ==
    /\ Scanning("outer")
    /\ goroutines' = [goroutines EXCEPT ![1] = OuterBody(goroutines[1], heap.params)]
    /\ UNCHANGED <<pc, call, ret, litVars, heap>>

ScanQuoted ==
    /\ Scanning("quoted")
    /\ goroutines' = [goroutines EXCEPT ![1] = QuotedBody(goroutines[1])]
    /\ UNCHANGED <<pc, call, ret, litVars, heap>>

ScanName ==
    /\ Scanning("name")
    /\ goroutines' = [goroutines EXCEPT ![1] = NameBody(goroutines[1], heap.params)]
    /\ UNCHANGED <<pc, call, ret, litVars, heap>>

ScanReturn ==
    /\ goroutines[1].stage = "done"
    /\ goroutines' = [goroutines EXCEPT ![1] = IdleFrame]
    /\ UNCHANGED <<pc, call, ret, litVars, heap>>

NextScan ==
    \/ ScanCall
    \/ ScanOuter
    \/ ScanQuoted
    \/ ScanName
    \/ ScanReturn

\* The goroutine keeps running: a step that can be taken is taken.
SpecScan ==
    /\ InitScan
    /\ [][NextScan]_vars
    /\ WF_vars(ScanOuter)
    /\ WF_vars(ScanQuoted)
    /\ WF_vars(ScanName)

\* The read position of a frame: j while a name is collected, otherwise i.
ReadPosition(f) == IF f.stage = "running" /\ f.loop = "name" THEN f.j ELSE f.i

\* What a step of the scan does to the frame f to give the frame g.
ScanStepForward(f, g) ==
    LET text == f.query
        consumed == SubSeq(text, ReadPosition(f) + 1, Min({ReadPosition(g), Len(text)}))
        inName == g.stage = "running" /\ g.loop = "name"
        failed == g.stage = "done" /\ g.result.err # NilError
        leavesName == f.loop = "name" /\ ~inName
        entersName == f.loop # "name" /\ inName
    IN \/ failed
       \/ /\ ReadPosition(g) > ReadPosition(f)
          /\ ReadPosition(g) <= Len(text) + 1
          /\ consumed # <<>>
          /\ g.stage = "running" => ReadPosition(g) < Len(text)
          /\ g.stage = "done" => ReadPosition(g) >= Len(text)
          /\ IF inName
             THEN /\ g.out = f.out
                  /\ g.i = f.i
                  /\ At(text, g.i) = ":"
                  /\ entersName => g.j = g.i + 1
                  /\ g.j >= g.i + 1
             ELSE IF leavesName
             THEN /\ g.out = f.out \o Placeholder(f.driver, g.argIndex)
                  /\ g.i >= f.i + 2
                  /\ Len(g.args) = Len(f.args) + 1
             ELSE /\ g.out = f.out \o consumed
                  /\ g.args = f.args

\* The scan has stopped at the end of the text or at a missing name: its
\* result is that of the whole text.
ScanReturnsWhole(f) ==
    /\ f.result = ParseNamedQuery(f.driver, f.query, f.atCall.params)
    /\ f.result.err = NilError => f.i \in {Len(f.query), Len(f.query) + 1}

ScanAdvances ==
    goroutines[1].stage = "running" => ScanStepForward(goroutines[1], goroutines'[1])

(***************************************************************************)
(* C30.  ParseNamedQuery terminates on every text and under every driver.  *)
(* Each step of the scan moves the read position strictly forward and      *)
(* never past the end of the text by more than the i++ that follows an     *)
(* unterminated literal; the characters it passes are either appended to   *)
(* the output as they are or are the colon and the name of a token, of at  *)
(* least one character, that a placeholder replaces; and a scan that has   *)
(* begun returns, also when a literal is unterminated and when the text    *)
(* ends in a backslash, a quote or a colon.                                *)
(***************************************************************************)
C30_ScanTerminates ==
    /\ [][ScanAdvances]_vars
    /\ [](goroutines[1].stage = "done" => ScanReturnsWhole(goroutines[1]))
    /\ (goroutines[1].stage = "running") ~> (goroutines[1].stage = "done")

\* The scan of '\ under the MySQL-style driver has returned: the literal is
\* unterminated, the text ends in a backslash, and the position is one past
\* the end of the text.
C30_Witness ==
    /\ goroutines[1].stage = "done"
    /\ goroutines[1].op = "ParseNamedQuery"
    /\ goroutines[1].driver = MySQL
    /\ goroutines[1].query = <<"'", "\\">>
    /\ goroutines[1].i = 3
    /\ goroutines[1].result = [query |-> <<"'", "\\">>, args |-> <<>>, err |-> NilError]

Escaped == pc = "returned" /\ call.op = "EscapeReserved"

(***************************************************************************)
(* C25.  Escaping is idempotent: pgEscapeReserved, and likewise            *)
(* sqliteEscapeReserved, applied to the text it has returned for a name    *)
(* returns that text unchanged, so a name is never wrapped in a second     *)
(* pair of quotes.                                                         *)
(***************************************************************************)
C25_EscapeIdempotent ==
    Escaped =>
        /\ EscapeReserved(call.driver, ret.text) = ret.text
        /\ QuoteCount(ret.text) <= QuoteCount(call.name) + 2

\* The reserved word "as" under SQLite: it comes back in quotes, and escaping
\* what came back adds nothing.
C25_Witness ==
    /\ Escaped
    /\ call.driver = SQLite
    /\ call.name = <<"a", "s">>
    /\ ret.text = <<"\"", "a", "s", "\"">>
    /\ EscapeReserved(call.driver, ret.text) = ret.text

\* Every double quote of the text is one of a pair of consecutive quotes.
RECURSIVE QuotesDoubled(_)
QuotesDoubled(s) ==
    IF s = <<>> THEN TRUE
    ELSE IF Head(s) # "\"" THEN QuotesDoubled(Tail(s))
    ELSE Len(s) >= 2 /\ s[2] = "\"" /\ QuotesDoubled(Tail(Tail(s)))

\* An opening quote, content in which every quote is doubled, a closing quote.
WellFormedQuoted(s) ==
    /\ Len(s) >= 2
    /\ s[1] = "\""
    /\ s[Len(s)] = "\""
    /\ QuotesDoubled(SubSeq(s, 2, Len(s) - 1))

(***************************************************************************)
(* C28 as stated.  Every text returned by pgEscapeReserved or sqliteEscapeReserved   *)
(* is free of double quotes or is a well-formed quoted identifier: an      *)
(* opening quote, content in which every inner quote is doubled, a closing *)
(* quote.                                                                  *)
(***************************************************************************)
C28_EscapedQuotesBalanced ==
    Escaped => (QuoteCount(ret.text) = 0 \/ WellFormedQuoted(ret.text))

(***************************************************************************)
(* C28 amended.  For a name free of double quotes the text returned by     *)
(* pgEscapeReserved or sqliteEscapeReserved is free of double quotes (the  *)
(* name itself) or a well-formed quoted identifier (the name between an    *)
(* opening and a closing quote).  A name that holds a double quote is not  *)
(* a reserved word and is returned as it is, its quotes neither doubled    *)
(* nor balanced.                                                           *)
(***************************************************************************)
C28_EscapedQuotesBalancedForQuoteFreeNames ==
    Escaped =>
        /\ QuoteCount(call.name) = 0 =>
              \/ ret.text = call.name
              \/ /\ WellFormedQuoted(ret.text)
                 /\ SubSeq(ret.text, 2, Len(ret.text) - 1) = call.name
                 /\ ToUpper(call.name) \in ReservedWords(call.driver)
        /\ QuoteCount(call.name) > 0 => ret.text = call.name

\* "at", reserved under PostgreSQL, comes back between two quotes.
C28_Witness ==
    /\ Escaped
    /\ call.driver = PostgreSQL
    /\ call.name = <<"a", "t">>
    /\ ret.text = <<"\"", "a", "t", "\"">>
    /\ WellFormedQuoted(ret.text)

\* fieldMap is what a registration of t with driver d produces: that driver,
\* and the INSERT text, UPDATE text and argument columns d generates for t.
ProducedBy(fieldMap, t, d) ==
    LET tableName == GetTableNameFromStructName(t.name)
        insert == GenerateInsertQuery(d, tableName, ColumnKeysOf(t), HasIntIdOf(t))
    IN /\ fieldMap.Driver = d
       /\ fieldMap.InsertQuery = insert.query
       /\ fieldMap.InsertColumns = insert.columns
       /\ fieldMap.UpdateQuery = GenerateUpdateQuery(d, tableName, ColumnKeysOf(t))

\* A step that is a call of RegisterModel: the driver it uses is the explicit
\* one, or else the default of the latest RegisterDriver call; with neither
\* it panics and the registry stays as it was; otherwise the entry of the
\* type is the one this registration produces and no other entry changes.
RegisterModelStep ==
    LET t == call'.type
        d == IF call'.driver # NoDriverArgument THEN call'.driver ELSE defaultDriver
    IN /\ defaultDriver' = defaultDriver
       /\ IF d = NilDriver
          THEN ret'.panic # NilError /\ StructToFieldMap' = StructToFieldMap
          ELSE /\ ret'.panic = NilError
               /\ DOMAIN StructToFieldMap' = DOMAIN StructToFieldMap \cup {t}
               /\ ProducedBy(StructToFieldMap'[t], t, d)
               /\ \A u \in DOMAIN StructToFieldMap \ {t} :
                     StructToFieldMap'[u] = StructToFieldMap[u]

\* A step that is a call of RegisterDriver changes the default and no entry.
RegisterDriverStep ==
    /\ defaultDriver' = call'.driver
    /\ StructToFieldMap' = StructToFieldMap

RegistryStep ==
    IF pc = "idle" /\ pc' = "returned" /\ call'.op = "RegisterModel" THEN RegisterModelStep
    ELSE IF pc = "idle" /\ pc' = "returned" /\ call'.op = "RegisterDriver"
    THEN RegisterDriverStep
    ELSE StructToFieldMap' = StructToFieldMap /\ defaultDriver' = defaultDriver

(***************************************************************************)
(* C26.  After any sequence of RegisterDriver and RegisterModel calls the   *)
(* registry entry of a type holds the driver, INSERT text, UPDATE text and  *)
(* argument columns of the most recent registration of that type and       *)
(* nothing of an earlier one.  A registration with an explicit driver uses *)
(* it even when a default is set; one without uses the default of the      *)
(* latest RegisterDriver call; a RegisterDriver call changes no registered *)
(* model; with neither an explicit nor a default driver RegisterModel      *)
(* panics and the registry is unchanged.                                   *)
(***************************************************************************)
C26_LatestRegistrationWins ==
    /\ [][RegistryStep]_vars
    /\ [](\A t \in DOMAIN StructToFieldMap :
             ProducedBy(StructToFieldMap[t], t, StructToFieldMap[t].Driver))

\* T is registered again, now with SQLite given explicitly, while the
\* default is PostgreSQL and A is still registered under that default.
C26_Witness ==
    /\ pc = "returned" /\ call.op = "RegisterModel"
    /\ call.type = ModelT /\ call.driver = SQLite
    /\ defaultDriver = PostgreSQL
    /\ StructToFieldMap[ModelT].Driver = SQLite
    /\ Registered(ModelA) /\ StructToFieldMap[ModelA].Driver = PostgreSQL

\* sub is seq with some of its elements left out, the rest in their order.
RECURSIVE IsSubsequence(_, _)
IsSubsequence(sub, seq) ==
    IF sub = <<>> THEN TRUE
    ELSE IF seq = <<>> THEN FALSE
    ELSE IF Head(sub) = Head(seq) THEN IsSubsequence(Tail(sub), Tail(seq))
    ELSE IsSubsequence(sub, Tail(seq))

Elements(seq) == {seq[i] : i \in 1..Len(seq)}

BuiltInDrivers == {PostgreSQL, SQLite}

\* The types registered with a driver of the package.
RegisteredBuiltIn ==
    {t \in DOMAIN StructToFieldMap : StructToFieldMap[t].Driver \in BuiltInDrivers}

\* The shape every field map is claimed to have, but for the 'id' column.
FieldMapColumnsConsistent(fieldMap) ==
    /\ IsSubsequence(fieldMap.InsertColumns, fieldMap.ColumnKeys)
    /\ Elements(fieldMap.ColumnKeys) \subseteq DOMAIN fieldMap.ColumnsMap
    /\ ValidateColumns(fieldMap.InsertColumns, fieldMap) = NilError
    /\ ValidateColumns(fieldMap.ColumnKeys, fieldMap) = NilError

\* Insert or Update on a type registered with a built-in driver has
\* returned, and not with the error of ValidateColumns.
NoInvalidColumnReported ==
    (/\ pc = "returned" /\ call.op \in {"Insert", "Update"}
     /\ call.type \in RegisteredBuiltIn) =>
        ~StartsWith(ret.err.msg, InvalidColumnPrefix)

(***************************************************************************)
(* C27 as stated.  After any sequence of registrations with the built-in   *)
(* drivers every field map of the registry has InsertColumns as an         *)
(* order-preserving subsequence of ColumnKeys, every key of ColumnKeys in   *)
(* ColumnsMap, and 'id' absent from InsertColumns exactly when HasIntId is  *)
(* true; hence ValidateColumns inside Insert and Update never fails for a   *)
(* registered model.                                                       *)
(***************************************************************************)
C27_FieldMapConsistent ==
    /\ \A t \in RegisteredBuiltIn :
          LET fieldMap == StructToFieldMap[t]
          IN /\ FieldMapColumnsConsistent(fieldMap)
             /\ (IdColumn \notin Elements(fieldMap.InsertColumns)) <=> fieldMap.HasIntId
    /\ NoInvalidColumnReported

(***************************************************************************)
(* C27 amended.  As above, with 'id' absent from InsertColumns exactly     *)
(* when HasIntId is true or the model has no 'id' column at all.            *)
(***************************************************************************)
C27_FieldMapConsistentWithOptionalId ==
    /\ \A t \in RegisteredBuiltIn :
          LET fieldMap == StructToFieldMap[t]
          IN /\ FieldMapColumnsConsistent(fieldMap)
             /\ (IdColumn \notin Elements(fieldMap.InsertColumns)) <=>
                   (fieldMap.HasIntId \/ IdColumn \notin Elements(fieldMap.ColumnKeys))
    /\ NoInvalidColumnReported

\* All three kinds of model are registered with built-in drivers, T's
\* integer id left out of its InsertColumns, A's text id kept, Ta with no
\* id, and an Insert on T has reached the executor.
C27_Witness ==
    /\ RegisteredBuiltIn = ModelTypes
    /\ StructToFieldMap[ModelT].HasIntId
    /\ StructToFieldMap[ModelT].InsertColumns = << <<"a">> >>
    /\ StructToFieldMap[ModelT].Driver = SQLite
    /\ IdColumn \in Elements(StructToFieldMap[ModelA].InsertColumns)
    /\ StructToFieldMap[ModelTa].InsertColumns = << <<"a", "$">> >>
    /\ pc = "returned" /\ call.op = "Insert" /\ call.type = ModelT
    /\ executor # <<>>

\* UpdateNamed has returned for a type registered with PostgreSQL or SQLite,
\* given a fragment that is not empty and a map that holds every name the
\* fragment references.
UpdateNamedOnRegistered ==
    /\ pc = "returned" /\ call.op = "UpdateNamed"
    /\ call.type \in RegisteredBuiltIn
    /\ call.query # <<>>
    /\ MissingTokens(Tokens(StructToFieldMap[call.type].Driver, call.query),
                     call.params) = {}

\* What follows the cached UPDATE text in the statement sent.
ExecutedWhere(fieldMap) ==
    SubSeq(executor[1].query, Len(fieldMap.UpdateQuery) + 1, Len(executor[1].query))

(***************************************************************************)
(* C24.  UpdateNamed on a model of n columns with a WHERE fragment of k    *)
(* named tokens executes one statement.  Under PostgreSQL its WHERE        *)
(* placeholders are $(n+1)..$(n+k) in token order; under a '?'-style       *)
(* driver they are k times '?'.  Under both it is bound to the n column     *)
(* values in column order followed by the k token values in token order.   *)
(***************************************************************************)
C24_UpdateNamedPlaceholders ==
    UpdateNamedOnRegistered =>
        LET fieldMap == StructToFieldMap[call.type]
            d == fieldMap.Driver
            n == Len(ColumnKeysOf(call.type))
            toks == Tokens(d, call.query)
            k == Len(toks)
        IN /\ Len(executor) = 1
           /\ executor[1].method = "Exec"
           /\ StartsWith(executor[1].query, fieldMap.UpdateQuery)
           /\ EmittedPlaceholders(d, ExecutedWhere(fieldMap)) =
                 [i \in 1..k |-> ExpectedPlaceholder(d, n + i)]
           /\ executor[1].args =
                 [i \in 1..n |-> [field |-> i - 1]]
                 \o [i \in 1..k |-> call.params[toks[i]]]

\* d.RenumberWhereClause(where, offset): pgRenumberPlaceholders for the
\* PostgreSQL driver, the fragment itself for the SQLite driver.
RenumberWhereClause(driver, where, offset) ==
    CASE driver = PostgreSQL -> pgRenumberPlaceholders(where, offset)
      [] driver = SQLite -> where
      [] driver = CustomDriver -> pgRenumberPlaceholders(where, offset)

\* Update has returned for a registered type and a fragment that is not
\* empty.
UpdateOnRegistered ==
    /\ pc = "returned" /\ call.op = "Update"
    /\ Registered(call.type)
    /\ call.where # <<>>

(***************************************************************************)
(* C29.  For every driver d of a registered model, a custom driver with    *)
(* numbered placeholders included, the WHERE fragment Update executes is   *)
(* d.RenumberWhereClause(where, n), n being the number of placeholders of  *)
(* the model's SET list, one per column; for the SQLite driver it is the   *)
(* caller's fragment unchanged.                                            *)
(***************************************************************************)
C29_UpdateRenumbersThroughDriver ==
    UpdateOnRegistered =>
        LET fieldMap == StructToFieldMap[call.type]
            d == fieldMap.Driver
            n == Len(ColumnKeysOf(call.type))
        IN /\ Len(executor) = 1
           /\ executor[1].query =
                 fieldMap.UpdateQuery \o RenumberWhereClause(d, call.where, n)
           /\ d = SQLite => executor[1].query = fieldMap.UpdateQuery \o call.where

====
